---- MODULE Spec2Model ----
(***************************************************************************)
(* html-rewriter-readability: a state-machine model of the extraction      *)
(* pipeline.                                                               *)
(*                                                                         *)
(*   Phase 1  src/src/phase1-handler.ts   the tree builder: one handler    *)
(*            object per process() call, fed start / text / end-tag /      *)
(*            document-end callbacks by the host's HTMLRewriter.           *)
(*   Phase 2  phase2-scorer.ts (src/unnamed/part_002) the scorer.          *)
(*   Phase 3  src/src/markdown-converter.ts  the Markdown serializer.      *)
(*   Driver   src/src/html-rewriter-readability.ts  process().             *)
(*                                                                         *)
(* Text is a sequence of one-character strings, so that trimming, space    *)
(* normalisation, escaping and splitting are computed as the code computes *)
(* them.  Content scores are exact rationals [n, d] (the code uses IEEE    *)
(* doubles).  "undefined"/"null" values are the empty tuple None and a     *)
(* present value v is Some(v); a null element id is NoId.                  *)
(***************************************************************************)
EXTENDS Integers, Sequences, FiniteSets, TLC

VARIABLES
    options,               \* this.options (constructor argument merged with the defaults)
    baseURI,               \* this.baseURI
    elementStore,          \* this.elementStore : Map<number, ElementInfo>
    metadataStore,         \* this.metadataStore : reference to a Metadata object
    metaObjs,              \* the Metadata objects allocated so far, by reference
    elementCounter,        \* this.elementCounter
    elementsToKeepIdsSet,  \* this.elementsToKeepIdsSet
    pc,                    \* per process() call: where the call stands
    handler,               \* per call: its Phase1Handler object
    host,                  \* per call: the rewriter's open elements (end-tag handler registered?)
    events,                \* per call: the parse events delivered to it so far
    result,                \* per call: what process() returned
    phase2                 \* per call: the locals of its calculateScoresAndFindBestCandidate run

vars == <<options, baseURI, elementStore, metadataStore, metaObjs, elementCounter,
          elementsToKeepIdsSet, pc, handler, host, events, result, phase2>>

-----------------------------------------------------------------------------
(* Optional values and small maps. *)

None == <<>>
Some(v) == <<v>>
IsSome(m) == m # <<>>
Get(m) == m[1]

NoId == 0

\* a function written out as an explicit table of its values
Table(f) == f @@ f

MapHas(m, k) == k \in DOMAIN m
MapSet(m, k, v) == (k :> v) @@ m
MapDelete(m, k) == Table([x \in (DOMAIN m) \ {k} |-> m[x]])
EmptyMap == <<>>

Min(S) == CHOOSE x \in S : \A y \in S : x <= y
Max(S) == CHOOSE x \in S : \A y \in S : x >= y

Last(s) == s[Len(s)]
Front(s) == SubSeq(s, 1, Len(s) - 1)

\* The elements of a finite set of integers as an ascending sequence.
RECURSIVE SortedSeq(_)
SortedSeq(S) == IF S = {} THEN <<>> ELSE <<Min(S)>> \o SortedSeq(S \ {Min(S)})

Range(s) == {s[i] : i \in DOMAIN s}

-----------------------------------------------------------------------------
(* Strings as character sequences. *)

WS == {" ", "\n", "\t"}

Rep(c, n) == Table([i \in 1..n |-> c])

\* String.prototype.trim
trim(s) ==
    LET idx == {i \in 1..Len(s) : s[i] \notin WS}
    IN  IF idx = {} THEN <<>> ELSE SubSeq(s, Min(idx), Max(idx))

\* s.replace(/\s{2,}/g, " ")
collapseSpaces(s) ==
    LET n == Len(s)
        IsWs(i) == i >= 1 /\ i <= n /\ s[i] \in WS
        Kept(i) == ~IsWs(i) \/ ~IsWs(i - 1)
        Out(i) == IF IsWs(i) /\ IsWs(i + 1) THEN " " ELSE s[i]
        idx == SelectSeq([i \in 1..n |-> i], Kept)
    IN  [k \in 1..Len(idx) |-> Out(idx[k])]

\* String.prototype.includes / startsWith / endsWith
Includes(s, w) == \E i \in 1..(Len(s) - Len(w) + 1) : SubSeq(s, i, i + Len(w) - 1) = w
StartsWith(s, w) == Len(w) <= Len(s) /\ SubSeq(s, 1, Len(w)) = w
EndsWith(s, w) == Len(w) <= Len(s) /\ SubSeq(s, Len(s) - Len(w) + 1, Len(s)) = w

\* Array.prototype.join('')
RECURSIVE join(_)
join(chunks) == IF chunks = <<>> THEN <<>> ELSE Head(chunks) \o join(Tail(chunks))

\* a case-insensitive alternation of literal words: /w1|w2|.../i.test(s)
MatchesAny(s, words) == \E w \in words : Includes(s, w)

-----------------------------------------------------------------------------
(* constants.ts *)

VOID_ELEMENTS ==
    {"AREA", "BASE", "BR", "COL", "EMBED", "HR", "IMG", "INPUT",
     "LINK", "META", "PARAM", "SOURCE", "TRACK", "WBR"}

DEFAULT_TAGS_TO_SCORE ==
    {"SECTION", "H2", "H3", "H4", "H5", "H6", "P", "TD", "PRE", "ARTICLE"}

UNLIKELY_ROLES ==
    { <<"m","e","n","u">>, <<"m","e","n","u","b","a","r">>,
      <<"c","o","m","p","l","e","m","e","n","t","a","r","y">>,
      <<"n","a","v","i","g","a","t","i","o","n">>, <<"a","l","e","r","t">>,
      <<"a","l","e","r","t","d","i","a","l","o","g">>, <<"d","i","a","l","o","g">> }

COMMAS == {","}

NB_TOP_CANDIDATES == 5
CHAR_THRESHOLD == 500
LINK_DENSITY_MODIFIER == 0

POSITIVE_WORDS ==
    { <<"a","r","t","i","c","l","e">>, <<"b","o","d","y">>, <<"c","o","n","t","e","n","t">>, 
      <<"e","n","t","r","y">>, <<"h","e","n","t","r","y">>, <<"h","-","e","n","t","r","y">>, 
      <<"m","a","i","n">>, <<"p","a","g","e">>, <<"p","a","g","i","n","a","t","i","o","n">>, 
      <<"p","o","s","t">>, <<"t","e","x","t">>, <<"b","l","o","g">>, <<"s","t","o","r","y">> }

NEGATIVE_WORDS ==
    { <<"-","a","d","-">>, <<"h","i","d","d","e","n">>, <<"b","a","n","n","e","r">>, 
      <<"c","o","m","b","x">>, <<"c","o","m","m","e","n","t">>, <<"c","o","m","-">>, 
      <<"c","o","n","t","a","c","t">>, <<"f","o","o","t","e","r">>, <<"g","d","p","r">>, 
      <<"m","a","s","t","h","e","a","d">>, <<"m","e","d","i","a">>, <<"m","e","t","a">>, 
      <<"o","u","t","b","r","a","i","n">>, <<"p","r","o","m","o">>, 
      <<"r","e","l","a","t","e","d">>, <<"s","c","r","o","l","l">>, <<"s","h","a","r","e">>, 
      <<"s","h","o","u","t","b","o","x">>, <<"s","i","d","e","b","a","r">>, 
      <<"s","k","y","s","c","r","a","p","e","r">>, <<"s","p","o","n","s","o","r">>, 
      <<"s","h","o","p","p","i","n","g">>, <<"t","a","g","s">>, <<"w","i","d","g","e","t">> }

UNLIKELY_CANDIDATES_WORDS ==
    { <<"-","a","d","-">>, <<"a","i","2","h","t","m","l">>, <<"b","a","n","n","e","r">>, 
      <<"b","r","e","a","d","c","r","u","m","b","s">>, <<"c","o","m","b","x">>, 
      <<"c","o","m","m","e","n","t">>, <<"c","o","m","m","u","n","i","t","y">>, 
      <<"c","o","v","e","r","-","w","r","a","p">>, <<"d","i","s","q","u","s">>, 
      <<"e","x","t","r","a">>, <<"f","o","o","t","e","r">>, <<"g","d","p","r">>, 
      <<"h","e","a","d","e","r">>, <<"l","e","g","e","n","d","s">>, <<"m","e","n","u">>, 
      <<"r","e","l","a","t","e","d">>, <<"r","e","m","a","r","k">>, 
      <<"r","e","p","l","i","e","s">>, <<"r","s","s">>, <<"s","h","o","u","t","b","o","x">>, 
      <<"s","i","d","e","b","a","r">>, <<"s","k","y","s","c","r","a","p","e","r">>, 
      <<"s","o","c","i","a","l">>, <<"s","p","o","n","s","o","r">>, 
      <<"s","u","p","p","l","e","m","e","n","t","a","l">>, 
      <<"a","d","-","b","r","e","a","k">>, <<"a","g","e","g","a","t","e">>, 
      <<"p","a","g","i","n","a","t","i","o","n">>, <<"p","a","g","e","r">>, 
      <<"p","o","p","u","p">>, <<"y","o","m","-","r","e","m","o","t","e">> }

OK_MAYBE_ITS_A_CANDIDATE_WORDS ==
    { <<"a","n","d">>, <<"a","r","t","i","c","l","e">>, <<"b","o","d","y">>, 
      <<"c","o","l","u","m","n">>, <<"c","o","n","t","e","n","t">>, <<"m","a","i","n">>, 
      <<"m","a","t","h","j","a","x">>, <<"s","h","a","d","o","w">> }

S_stylesheet == <<"s","t","y","l","e","s","h","e","e","t">>
S_display_none == <<"d","i","s","p","l","a","y",":"," ","n","o","n","e">>
S_visibility_hidden == <<"v","i","s","i","b","i","l","i","t","y",":"," ","h","i","d","d","e","n">>
S_true == <<"t","r","u","e">>
S_presentation == <<"p","r","e","s","e","n","t","a","t","i","o","n">>
S_zero == <<"0">>
S_og_title == <<"o","g",":","t","i","t","l","e">>
S_twitter_title == <<"t","w","i","t","t","e","r",":","t","i","t","l","e">>
S_og_article_author == <<"o","g",":","a","r","t","i","c","l","e",":","a","u","t","h","o","r">>
S_author == <<"a","u","t","h","o","r">>
S_og_description == <<"o","g",":","d","e","s","c","r","i","p","t","i","o","n">>
S_description == <<"d","e","s","c","r","i","p","t","i","o","n">>
S_og_site_name == <<"o","g",":","s","i","t","e","_","n","a","m","e">>
S_article_published_time == <<"a","r","t","i","c","l","e",":","p","u","b","l","i","s","h","e","d","_","t","i","m","e">>
S_parsely_pub_date == <<"p","a","r","s","e","l","y","-","p","u","b","-","d","a","t","e">>
S_hid == <<"h","i","d">>
S_sp_hid == <<" ","h","i","d">>
S_sp_hid_sp == <<" ","h","i","d"," ">>
S_hid_sp == <<"h","i","d"," ">>
S_http == <<"h","t","t","p">>
S_hash == <<"#">>
S_mailto == <<"m","a","i","l","t","o",":">>
S_tel == <<"t","e","l",":">>
S_data == <<"d","a","t","a",":">>
S_language == <<"l","a","n","g","u","a","g","e","-">>
S_origin == <<"h","t","t","p","s",":","/","/","e","x","a","m","p","l","e",".","c","o","m">>
S_dir == <<"/","y","/">>

-----------------------------------------------------------------------------
(* types.ts: ElementInfo and Metadata. *)

MetadataKeys == {"title", "byline", "excerpt", "siteName", "publishedTime", "lang", "dir"}

\* {} : a Metadata object with no field set
EmptyMetadata == [k \in MetadataKeys |-> None]

\* !value for an optional string: undefined, null and "" are falsy
Falsy(m) == m = None \/ Get(m) = <<>>

\* utils.ts unescapeHtmlEntities: undefined for a falsy argument; each replace of
\* this source maps a character to itself, so a non-empty string is returned as is.
unescapeHtmlEntities(m) == IF Falsy(m) THEN None ELSE Some(Get(m))

\* element.getAttribute(name)
getAttribute(element, name) ==
    IF name \in DOMAIN element.attributes THEN Some(element.attributes[name]) ELSE None

\* utils.ts extractMetadataFromElement: the fields a META element sets
extractMetadataFromElement(element) ==
    LET name == getAttribute(element, "name")
        property == getAttribute(element, "property")
        content == getAttribute(element, "content")
        isTitle == property = Some(S_og_title) \/ name = Some(S_twitter_title)
        isByline == property = Some(S_og_article_author) \/ name = Some(S_author)
        isExcerpt == property = Some(S_og_description) \/ name = Some(S_description)
        isSiteName == property = Some(S_og_site_name)
        isPublished == property = Some(S_article_published_time)
                       \/ name = Some(S_parsely_pub_date)
        keys == {k \in MetadataKeys :
                    \/ k = "title" /\ isTitle
                    \/ k = "byline" /\ isByline
                    \/ k = "excerpt" /\ isExcerpt
                    \/ k = "siteName" /\ isSiteName
                    \/ k = "publishedTime" /\ isPublished}
    IN  IF Falsy(content) THEN EmptyMap ELSE [k \in keys |-> Get(content)]

-----------------------------------------------------------------------------
(* phase1-handler.ts: the Phase1Handler object h of one call, working on the   *)
(* instance's world w = [elementStore, elementCounter, metaObjs].              *)

\* new Phase1Handler(elementStore, metadataStore, idGenerator, debug, maxElemsToParse)
NewPhase1Handler(metadataRef, maxElemsToParse) ==
    [ elementStack |-> <<>>,
      elementCount |-> 0,
      lastTextChunkMap |-> EmptyMap,
      metadataStore |-> metadataRef,
      maxElemsToParse |-> maxElemsToParse ]

\* the number of start tags seen so far taken for the id of the open element
getCurrentElementIdFromStack_count(h) == h.elementCount

getCurrentElementIdFromStack(h) ==
    IF Len(h.elementStack) > 0 THEN Last(h.elementStack) ELSE NoId

SKIPPED_TAGS == {"SCRIPT", "STYLE", "NOSCRIPT", "IFRAME"}

IsSkippedElement(element) ==
    \/ element.tagName \in SKIPPED_TAGS
    \/ element.tagName = "LINK" /\ getAttribute(element, "rel") = Some(S_stylesheet)

StyleIncludes(element, what) ==
    LET style == getAttribute(element, "style")
    IN  IsSome(style) /\ Includes(Get(style), what)

\* the ElementInfo stored for a start tag
NewElementInfo(elementId, parentId, element) ==
    [ id |-> elementId,
      parentId |-> parentId,
      tagName |-> element.tagName,
      attributes |-> element.attributes,
      textChunks |-> Some(<<>>),
      finalTextContent |-> <<>>,
      isVisibleBasedOnAttrs |->
          /\ getAttribute(element, "hidden") = None
          /\ ~StyleIncludes(element, S_display_none)
          /\ ~StyleIncludes(element, S_visibility_hidden)
          /\ getAttribute(element, "aria-hidden") # Some(S_true),
      role |-> getAttribute(element, "role"),
      isDataTableLikely |->
          /\ element.tagName = "TABLE"
          /\ getAttribute(element, "role") # Some(S_presentation)
          /\ getAttribute(element, "datatable") # Some(S_zero),
      isCodeBlock |-> element.tagName = "PRE",
      readability |-> None ]

\* a handler that never stops at the cap
CapReached_never(h) == FALSE

\* the max-elements check at the top of element()
CapReached(h) == h.maxElemsToParse > 0 /\ h.elementCount >= h.maxElemsToParse

\* the META branch: every extracted field not yet set is set (first writer wins)
MetaBranch(meta, element) ==
    LET extractedMeta == extractMetadataFromElement(element)
    IN  Table([k \in MetadataKeys |->
                  IF k \in DOMAIN extractedMeta /\ Falsy(meta[k])
                  THEN unescapeHtmlEntities(Some(extractedMeta[k]))
                  ELSE meta[k]])

\* the HTML branch: lang and dir are assigned unconditionally
HtmlBranch(meta, element) ==
    [meta EXCEPT !["lang"] = getAttribute(element, "lang"),
                 !["dir"] = getAttribute(element, "dir")]

\* element(element): the start-tag handler.  registered tells the rewriter whether
\* an end-tag handler was registered for the element.
Phase1Handler_element(w, h, element) ==
    IF CapReached(h)
    THEN [w |-> w, h |-> h, registered |-> FALSE]
    ELSE
    LET h1 == [h EXCEPT !.elementCount = @ + 1]
        tagName == element.tagName
    IN
    IF IsSkippedElement(element)
    THEN [w |-> w, h |-> h1, registered |-> FALSE]
    ELSE
    LET elementId == w.elementCounter + 1
        parentId == getCurrentElementIdFromStack(h1)
        info == NewElementInfo(elementId, parentId, element)
        meta == w.metaObjs[h1.metadataStore]
        meta1 == IF tagName = "META" THEN MetaBranch(meta, element)
                 ELSE IF tagName = "HTML" THEN HtmlBranch(meta, element)
                 ELSE meta
        h2 == [h1 EXCEPT !.lastTextChunkMap = MapDelete(@, elementId)]
        isVoid == tagName \in VOID_ELEMENTS
        pushed == [h2 EXCEPT !.elementStack = Append(@, elementId)]
        w1 == [w EXCEPT !.elementCounter = elementId,
                        !.metaObjs = [@ EXCEPT ![h1.metadataStore] = meta1],
                        !.elementStore = MapSet(@, elementId,
                            IF isVoid THEN [info EXCEPT !.textChunks = None] ELSE info)]
    IN
    IF isVoid THEN [w |-> w1, h |-> h2, registered |-> FALSE]
    ELSE IF element.endTagFails
         THEN [w |-> w1, h |-> h2, registered |-> FALSE]
         ELSE [w |-> w1, h |-> pushed, registered |-> TRUE]

\* an end-tag callback that leaves the stack as it is
Phase1Handler_onEndTag_keep(w, h) == [w |-> w, h |-> h]

\* the callback registered with element.onEndTag
Phase1Handler_onEndTag(w, h) ==
    IF Len(h.elementStack) = 0 THEN [w |-> w, h |-> h]
    ELSE
    LET finishedElementId == Last(h.elementStack)
        h1 == [h EXCEPT !.elementStack = Front(@),
                        !.lastTextChunkMap = MapDelete(@, finishedElementId)]
    IN
    IF ~MapHas(w.elementStore, finishedElementId) THEN [w |-> w, h |-> h1]
    ELSE
    LET info == w.elementStore[finishedElementId]
        finalTextContent == join(IF IsSome(info.textChunks) THEN Get(info.textChunks) ELSE <<>>)
        info1 == [info EXCEPT !.finalTextContent = finalTextContent, !.textChunks = None]
        meta == w.metaObjs[h.metadataStore]
        meta1 == IF info.tagName = "TITLE" /\ Falsy(meta["title"])
                 THEN [meta EXCEPT !["title"] = unescapeHtmlEntities(Some(trim(finalTextContent)))]
                 ELSE meta
    IN  [w |-> [w EXCEPT !.elementStore = [@ EXCEPT ![finishedElementId] = info1],
                         !.metaObjs = [@ EXCEPT ![h.metadataStore] = meta1]],
         h |-> h1]

\* the text-chunk handler without its duplicate check
Phase1Handler_text_append(w, h, newChunk) ==
    LET currentElementId == getCurrentElementIdFromStack(h)
        chunks == w.elementStore[currentElementId].textChunks
    IN  IF \/ currentElementId = NoId \/ trim(newChunk) = <<>>
           \/ ~MapHas(w.elementStore, currentElementId)
           \/ w.elementStore[currentElementId].tagName \in VOID_ELEMENTS
        THEN [w |-> w, h |-> h]
        ELSE [w |-> [w EXCEPT !.elementStore[currentElementId].textChunks =
                                  Some(Append(IF IsSome(chunks) THEN Get(chunks) ELSE <<>>,
                                              newChunk))],
              h |-> [h EXCEPT !.lastTextChunkMap = MapSet(@, currentElementId, newChunk)]]

\* text(text): the text-chunk handler
Phase1Handler_text(w, h, newChunk) ==
    LET currentElementId == getCurrentElementIdFromStack(h)
        significantText == Len(trim(newChunk)) > 0
    IN
    IF currentElementId = NoId \/ ~significantText THEN [w |-> w, h |-> h]
    ELSE IF ~MapHas(w.elementStore, currentElementId) THEN [w |-> w, h |-> h]
    ELSE
    LET currentInfo == w.elementStore[currentElementId]
        lastChunk == IF MapHas(h.lastTextChunkMap, currentElementId)
                     THEN Some(h.lastTextChunkMap[currentElementId]) ELSE None
        chunks == IF IsSome(currentInfo.textChunks) THEN Get(currentInfo.textChunks) ELSE <<>>
    IN
    IF currentInfo.tagName \in VOID_ELEMENTS \/ lastChunk = Some(newChunk)
    THEN [w |-> w, h |-> h]
    ELSE [w |-> [w EXCEPT !.elementStore[currentElementId].textChunks =
                              Some(Append(chunks, newChunk))],
          h |-> [h EXCEPT !.lastTextChunkMap = MapSet(@, currentElementId, newChunk)]]

\* end(end): the document-end handler
Phase1Handler_end(w, h) ==
    [w |-> w, h |-> [h EXCEPT !.lastTextChunkMap = EmptyMap]]

-----------------------------------------------------------------------------
(* Content scores: exact rationals n/d with d > 0, kept in lowest terms. *)

Abs(i) == IF i < 0 THEN -i ELSE i

RECURSIVE GCD(_, _)
GCD(a, b) == IF b = 0 THEN a ELSE GCD(b, a % b)

Rat(n, d) == LET g == GCD(Abs(n), d) IN [n |-> n \div g, d |-> d \div g]
RInt(i) == [n |-> i, d |-> 1]
RAdd(a, b) == Rat(a.n * b.d + b.n * a.d, a.d * b.d)
RMul(a, b) ==
    LET g1 == GCD(Abs(a.n), b.d)
        g2 == GCD(Abs(b.n), a.d)
    IN  Rat((a.n \div g1) * (b.n \div g2), (a.d \div g2) * (b.d \div g1))
RDivInt(a, k) == RMul(a, [n |-> 1, d |-> k])

\* a < b, by integer parts and then by the reciprocals of the fractional parts, so
\* that no product of a numerator and a denominator is formed
RECURSIVE RLess(_, _)
RLess(a, b) ==
    LET qa == a.n \div a.d
        qb == b.n \div b.d
        ra == a.n % a.d
        rb == b.n % b.d
    IN  IF qa # qb THEN qa < qb
        ELSE IF ra = 0 THEN rb > 0
        ELSE IF rb = 0 THEN FALSE
        ELSE RLess([n |-> b.d, d |-> rb], [n |-> a.d, d |-> ra])
RLeq(a, b) == ~RLess(b, a)
RMax(a, b) == IF RLess(a, b) THEN b ELSE a

-----------------------------------------------------------------------------
(* utils.ts: the tree-query helpers over the element store. *)

\* store.get(id), undefined when the id is absent
getElementInfo(id, store) == IF MapHas(store, id) THEN Some(store[id]) ELSE None

getParentId(id, store) == IF MapHas(store, id) THEN store[id].parentId ELSE NoId

RECURSIVE AncestorsFrom(_, _, _, _)
AncestorsFrom(currentId, store, depth, maxDepth) ==
    IF currentId # NoId /\ (maxDepth <= 0 \/ depth < maxDepth)
    THEN LET parentId == getParentId(currentId, store)
         IN  IF parentId # NoId
             THEN <<parentId>> \o AncestorsFrom(parentId, store, depth + 1, maxDepth)
             ELSE <<>>
    ELSE <<>>

getAncestorIds(id, store, maxDepth) == AncestorsFrom(id, store, 0, maxDepth)

getChildrenIds(parentId, store) ==
    SortedSeq({id \in DOMAIN store : store[id].parentId = parentId})

RECURSIVE getDescendantIds(_, _)
RECURSIVE DescendantsOfAll(_, _)
DescendantsOfAll(children, store) ==
    IF children = <<>> THEN <<>>
    ELSE <<Head(children)>> \o getDescendantIds(Head(children), store)
         \o DescendantsOfAll(Tail(children), store)
getDescendantIds(id, store) == DescendantsOfAll(getChildrenIds(id, store), store)

getInnerText(id, store, normalizeSpaces) ==
    LET text == IF MapHas(store, id) THEN store[id].finalTextContent ELSE <<>>
    IN  IF normalizeSpaces THEN trim(collapseSpaces(text)) ELSE trim(text)

RECURSIVE getTotalVisibleInnerText(_, _, _)
RECURSIVE AppendChildrenText(_, _, _, _)
AppendChildrenText(totalText, children, store, normalizeSpaces) ==
    IF children = <<>> THEN totalText
    ELSE AppendChildrenText(
             totalText \o <<" ">>
                 \o getTotalVisibleInnerText(Head(children), store, normalizeSpaces),
             Tail(children), store, normalizeSpaces)
getTotalVisibleInnerText(id, store, normalizeSpaces) ==
    LET own == IF MapHas(store, id) /\ store[id].isVisibleBasedOnAttrs
               THEN getInnerText(id, store, normalizeSpaces) ELSE <<>>
        totalText == AppendChildrenText(own, getChildrenIds(id, store), store, normalizeSpaces)
    IN  IF normalizeSpaces THEN trim(collapseSpaces(totalText)) ELSE trim(totalText)

\* `${attributes.class ?? ''} ${attributes.id ?? ''}`
ClassAndId(info) ==
    (IF "class" \in DOMAIN info.attributes THEN info.attributes["class"] ELSE <<>>)
    \o <<" ">> \o
    (IF "id" \in DOMAIN info.attributes THEN info.attributes["id"] ELSE <<>>)

NEGATIVE_REGEX_test(s) ==
    \/ MatchesAny(s, NEGATIVE_WORDS)
    \/ s = S_hid \/ EndsWith(s, S_sp_hid) \/ Includes(s, S_sp_hid_sp) \/ StartsWith(s, S_hid_sp)
POSITIVE_REGEX_test(s) == MatchesAny(s, POSITIVE_WORDS)
UNLIKELY_CANDIDATES_REGEX_test(s) == MatchesAny(s, UNLIKELY_CANDIDATES_WORDS)
OK_MAYBE_ITS_A_CANDIDATE_REGEX_test(s) == MatchesAny(s, OK_MAYBE_ITS_A_CANDIDATE_WORDS)

getClassWeight(id, store) ==
    IF ~MapHas(store, id) THEN 0
    ELSE LET classAndId == ClassAndId(store[id])
         IN  (IF NEGATIVE_REGEX_test(classAndId) THEN -25 ELSE 0)
             + (IF POSITIVE_REGEX_test(classAndId) THEN 25 ELSE 0)

\* ten times the weighted length of the visible anchor text under id (a fragment
\* link weighs 0.3, any other 1)
RECURSIVE LinkLengthTimes10(_, _)
LinkLengthTimes10(ids, store) ==
    IF ids = <<>> THEN 0
    ELSE LET descInfo == store[Head(ids)]
             isLink == descInfo.isVisibleBasedOnAttrs /\ descInfo.tagName = "A"
             fragment == "href" \in DOMAIN descInfo.attributes
                         /\ StartsWith(descInfo.attributes["href"], S_hash)
             len == Len(getTotalVisibleInnerText(Head(ids), store, TRUE))
         IN  (IF isLink THEN len * (IF fragment THEN 3 ELSE 10) ELSE 0)
             + LinkLengthTimes10(Tail(ids), store)

getLinkDensity(id, store) ==
    LET textLength == Len(getTotalVisibleInnerText(id, store, TRUE))
        own == IF MapHas(store, id) THEN <<id>> ELSE <<>>
    IN  IF textLength = 0 THEN RInt(0)
        ELSE Rat(LinkLengthTimes10(own \o getDescendantIds(id, store), store),
                 10 * textLength)

\* utils.ts initializeNodeScore (exported; the scorer uses its own copy below)
utils_initializeNodeScore(id, store) ==
    LET tagName == store[id].tagName
        bias == IF tagName \in {"ARTICLE", "DIV"} THEN 5
                ELSE IF tagName \in {"PRE", "TD", "BLOCKQUOTE"} THEN 3
                ELSE IF tagName \in {"ADDRESS", "OL", "UL", "DL", "DD", "DT", "LI", "FORM"} THEN -3
                ELSE IF tagName \in {"H1", "H2", "H3", "H4", "H5", "H6", "TH"} THEN -5
                ELSE 0
    IN  bias + getClassWeight(id, store)

isUnlikelyCandidate(id, store) ==
    IF ~MapHas(store, id) THEN TRUE
    ELSE LET info == store[id]
             matchString == ClassAndId(info)
         IN  \/ (IF IsSome(info.role) THEN Get(info.role) ELSE <<>>) \in UNLIKELY_ROLES
             \/ /\ UNLIKELY_CANDIDATES_REGEX_test(matchString)
                /\ ~OK_MAYBE_ITS_A_CANDIDATE_REGEX_test(matchString)
                /\ info.tagName # "BODY"
                /\ info.tagName # "ARTICLE"

-----------------------------------------------------------------------------
(* phase2-scorer.ts: calculateScoresAndFindBestCandidate. *)

\* the scorer's own initializeNodeScore: the seed of a first-visited ancestor
initializeNodeScore(id, store) ==
    LET tagName == store[id].tagName
        bias == IF tagName \in {"ARTICLE", "DIV"} THEN 5
                ELSE IF tagName \in {"PRE", "TD", "BLOCKQUOTE"} THEN 3
                ELSE IF tagName = "ADDRESS" THEN -3
                ELSE IF tagName = "H1" THEN -5
                ELSE 0
    IN  bias + getClassWeight(id, store)

\* 1. the elements to score, in the store's iteration order
elementsToScoreIds(store) ==
    SelectSeq(SortedSeq(DOMAIN store),
              LAMBDA id : /\ store[id].isVisibleBasedOnAttrs
                          /\ ~isUnlikelyCandidate(id, store)
                          /\ store[id].tagName \in DEFAULT_TAGS_TO_SCORE)

\* innerText.split(COMMAS_REGEX).length
SplitLength(innerText) == Cardinality({i \in 1..Len(innerText) : innerText[i] \in COMMAS}) + 1

ContentScoreOf(innerText) ==
    LET hundreds == Len(innerText) \div 100
    IN  1 + SplitLength(innerText) + (IF hundreds < 3 THEN hundreds ELSE 3)

ScoreDivider(level) == IF level = 0 THEN 1 ELSE IF level = 1 THEN 2 ELSE level * 3

\* 2. the ancestorIds.forEach body, from ancestor `level` on; st = [store, candidates]
RECURSIVE PropagateToAncestors(_, _, _, _)
PropagateToAncestors(st, ancestorIds, level, contentScore) ==
    IF level >= Len(ancestorIds) THEN st
    ELSE
    LET ancestorId == ancestorIds[level + 1]
        store == st.store
        skipped == \/ ~MapHas(store, ancestorId)
                   \/ ~store[ancestorId].isVisibleBasedOnAttrs
                   \/ isUnlikelyCandidate(ancestorId, store)
        first == store[ancestorId].readability = None
        seed == IF first THEN RInt(initializeNodeScore(ancestorId, store))
                ELSE Get(store[ancestorId].readability)
        candidates1 == IF first /\ seed.n >= 0
                       THEN Append(st.candidates, ancestorId) ELSE st.candidates
        score == RAdd(seed, Rat(contentScore, ScoreDivider(level)))
        st1 == [store |-> [store EXCEPT ![ancestorId].readability = Some(score)],
                candidates |-> candidates1]
    IN  PropagateToAncestors(IF skipped THEN st ELSE st1, ancestorIds, level + 1, contentScore)

\* 2. the loop over elementsToScoreIds
RECURSIVE ScoreElements(_, _)
ScoreElements(st, ids) ==
    IF ids = <<>> THEN st
    ELSE
    LET elementId == Head(ids)
        innerText == getInnerText(elementId, st.store, TRUE)
        ancestorIds == getAncestorIds(elementId, st.store, 5)
        skip == \/ ~st.store[elementId].isVisibleBasedOnAttrs
                \/ Len(innerText) < 25
                \/ Len(ancestorIds) = 0
    IN  ScoreElements(
            IF skip THEN st
            ELSE PropagateToAncestors(st, ancestorIds, 0, ContentScoreOf(innerText)),
            Tail(ids))

NoResult == [topCandidateId |-> NoId, elementsToKeepIds |-> {}]

\* id is its own ancestor: the store holds a parent cycle through it, and the
\* recursions over its children (getTotalVisibleInnerText, getDescendantIds) never
\* end, which the engine answers with a RangeError
OnCycle(id, store) ==
    id \in Range(getAncestorIds(id, store, Cardinality(DOMAIN store)))

\* what a run leaves when a step throws: nothing is returned
Thrown(store, candidates) ==
    [store |-> store, threw |-> TRUE, returned |-> NoResult, candidates |-> candidates,
     initialTopCandidateId |-> NoId, topCandidateId |-> NoId,
     topCandidateScore |-> RInt(0), elementsToKeepIds |-> {}, totalTextLength |-> 0]

\* 3. finalScore = contentScore * (1 - linkDensity), written back to the record
AdjustedScore(id, store) ==
    LET linkDensity == getLinkDensity(id, store)
    IN  RMul(Get(store[id].readability), RAdd(RInt(1), [n |-> -linkDensity.n, d |-> linkDensity.d]))

RECURSIVE AdjustCandidates(_, _)
AdjustCandidates(store, candidates) ==
    IF candidates = <<>> THEN store
    ELSE AdjustCandidates(
             [store EXCEPT ![Head(candidates)].readability =
                               Some(AdjustedScore(Head(candidates), store))],
             Tail(candidates))

\* step 4 without its filter on positive scores
SortedCandidatesHead_unfiltered(store, candidates) ==
    LET best == CHOOSE i \in 1..Len(candidates) :
                    /\ \A j \in 1..Len(candidates) :
                          ~RLess(Get(store[candidates[i]].readability),
                                 Get(store[candidates[j]].readability))
                    /\ \A j \in 1..(i - 1) :
                          RLess(Get(store[candidates[j]].readability),
                                Get(store[candidates[i]].readability))
    IN  IF candidates = <<>> THEN NoId ELSE candidates[best]

\* 4. the first candidate of the stable descending sort of the positive scores
SortedCandidatesHead(store, candidates) ==
    LET positive == SelectSeq(candidates, LAMBDA id : Get(store[id].readability).n > 0)
        best == CHOOSE i \in 1..Len(positive) :
                    /\ \A j \in 1..Len(positive) :
                          ~RLess(Get(store[positive[i]].readability),
                                 Get(store[positive[j]].readability))
                    /\ \A j \in 1..(i - 1) :
                          RLess(Get(store[positive[j]].readability),
                                Get(store[positive[i]].readability))
    IN  IF positive = <<>> THEN NoId ELSE positive[best]

\* parentInfo?.readability?.contentScore ?? -1
ScoreOrMinusOne(id, store) ==
    IF MapHas(store, id) /\ IsSome(store[id].readability)
    THEN Get(store[id].readability) ELSE RInt(-1)

\* 5. the climb to a better-scoring parent; c = [id, score]
RECURSIVE ClimbToParent(_, _)
ClimbToParent(c, store) ==
    LET parentId == getParentId(c.id, store)
        parentScore == ScoreOrMinusOne(parentId, store)
    IN  IF parentId = NoId THEN c
        ELSE IF RLess(parentScore, RDivInt(c.score, 3)) THEN c
        ELSE IF RLess(c.score, parentScore)
             THEN ClimbToParent([id |-> parentId, score |-> parentScore], store)
             ELSE c

\* 5. the single-child climb: only the candidate id moves
RECURSIVE ClimbSingleChild(_, _)
ClimbSingleChild(topCandidateId, store) ==
    LET parentId == getParentId(topCandidateId, store)
    IN  IF /\ parentId # NoId
           /\ MapHas(store, topCandidateId)
           /\ store[topCandidateId].tagName # "BODY"
           /\ Len(getChildrenIds(parentId, store)) = 1
        THEN ClimbSingleChild(parentId, store)
        ELSE topCandidateId

\* siblingInfo.readability?.contentScore ?? 0
ScoreOrZero(id, store) ==
    IF IsSome(store[id].readability) THEN Get(store[id].readability) ELSE RInt(0)

SiblingScoreThreshold(topCandidateScore) == RMax(RInt(10), RMul(topCandidateScore, Rat(1, 5)))

\* 6. the siblings appended to the retained set
AppendedSiblings(topCandidateId, topCandidateScore, store) ==
    LET siblings == getChildrenIds(getParentId(topCandidateId, store), store)
    IN  {siblingId \in Range(siblings) :
            /\ store[siblingId].isVisibleBasedOnAttrs
            /\ \/ siblingId = topCandidateId
               \/ RLeq(SiblingScoreThreshold(topCandidateScore), ScoreOrZero(siblingId, store))}

WithDescendants(ids, store) ==
    ids \cup UNION {Range(getDescendantIds(id, store)) : id \in ids}

ElementsToKeep(topCandidateId, topCandidateScore, store) ==
    IF getParentId(topCandidateId, store) # NoId
    THEN WithDescendants(AppendedSiblings(topCandidateId, topCandidateScore, store), store)
    ELSE WithDescendants({topCandidateId}, store)

\* 7. the visible text length of the retained elements
RECURSIVE TotalTextLength(_, _)
TotalTextLength(ids, store) ==
    IF ids = {} THEN 0
    ELSE LET id == CHOOSE x \in ids : TRUE
         IN  (IF store[id].isVisibleBasedOnAttrs THEN Len(getInnerText(id, store, TRUE)) ELSE 0)
             + TotalTextLength(ids \ {id}, store)

\* the gate of step 7 left open
BelowThreshold_never(totalTextLength, charThreshold) == FALSE

\* 7. totalTextLength < charThreshold
BelowThreshold(totalTextLength, charThreshold) == totalTextLength < charThreshold

\* 8. what a run hands back: the value returned, with the store as the run leaves
\* it (scores are written into the records) and the locals the steps computed
ReturnResults(store, candidates, initialTopId, topCandidateId, topCandidateScore, keep, total, opts) ==
    [store |-> store,
     threw |-> FALSE,
     returned |-> IF BelowThreshold(total, opts.charThreshold) THEN NoResult
                  ELSE [topCandidateId |-> topCandidateId, elementsToKeepIds |-> keep],
     candidates |-> candidates,
     initialTopCandidateId |-> initialTopId,
     topCandidateId |-> topCandidateId,
     topCandidateScore |-> topCandidateScore,
     elementsToKeepIds |-> keep,
     totalTextLength |-> total]

\* 7. Check character count
CheckCharacterCount(store, candidates, initialTopId, topCandidateId, topCandidateScore, keep, opts) ==
    ReturnResults(store, candidates, initialTopId, topCandidateId, topCandidateScore, keep,
                  TotalTextLength(keep, store), opts)

\* 6. the elements getDescendantIds is called on
DescendantRoots(topCandidateId, topCandidateScore, store) ==
    IF getParentId(topCandidateId, store) # NoId
    THEN AppendedSiblings(topCandidateId, topCandidateScore, store)
    ELSE {topCandidateId}

\* 6. Combine sibling elements
CombineSiblings(store, candidates, initialTopId, topCandidateId, topCandidateScore, opts) ==
    IF \E id \in DescendantRoots(topCandidateId, topCandidateScore, store) : OnCycle(id, store)
    THEN Thrown(store, candidates)
    ELSE CheckCharacterCount(store, candidates, initialTopId, topCandidateId, topCandidateScore,
                             ElementsToKeep(topCandidateId, topCandidateScore, store), opts)

\* 5. Candidate improvement: climbed = [id, score] after the climb to a better parent
ImproveCandidate(store, candidates, initialTopId, climbed, opts) ==
    CombineSiblings(store, candidates, initialTopId, ClimbSingleChild(climbed.id, store),
                    climbed.score, opts)

\* 4. Select top candidate
SelectTopCandidate(store, candidates, initialTopId, opts) ==
    IF initialTopId = NoId
    THEN [store |-> store, threw |-> FALSE, returned |-> NoResult, candidates |-> candidates,
          initialTopCandidateId |-> NoId, topCandidateId |-> NoId,
          topCandidateScore |-> RInt(0), elementsToKeepIds |-> {}, totalTextLength |-> 0]
    ELSE ImproveCandidate(store, candidates, initialTopId,
                          ClimbToParent([id |-> initialTopId,
                                         score |-> Get(store[initialTopId].readability)], store),
                          opts)

\* 3. Adjust candidate scores
AdjustCandidateScores(store, candidates, opts) ==
    SelectTopCandidate(store, candidates, SortedCandidatesHead(store, candidates), opts)

\* 2. Score elements and propagate to ancestors: scored = [store, candidates]
ScoreAndPropagate(scored, opts) ==
    LET cyclic == {i \in 1..Len(scored.candidates) : OnCycle(scored.candidates[i], scored.store)}
    IN  IF cyclic # {}
        THEN Thrown(AdjustCandidates(scored.store, SubSeq(scored.candidates, 1, Min(cyclic) - 1)),
                    scored.candidates)
        ELSE AdjustCandidateScores(AdjustCandidates(scored.store, scored.candidates),
                                   scored.candidates, opts)

\* calculateScoresAndFindBestCandidate(elementStore, options)
calculateScoresAndFindBestCandidate(elementStore0, opts) ==
    ScoreAndPropagate(ScoreElements([store |-> elementStore0, candidates |-> <<>>],
                                    elementsToScoreIds(elementStore0)), opts)

-----------------------------------------------------------------------------
(* markdown-converter.ts: MarkdownConverter over (store, keep) = the element     *)
(* store and the retained set it was constructed with.                          *)

\* the character U+0060, which a string literal of this language cannot hold
BACKTICK == "&#96;"

MARKDOWN_SPECIALS ==
    {"\\", BACKTICK, "*", "_", "{", "}", "[", "]", "(", ")", "#", "+", ".", "!", "-"}

\* s.replace(/([\\`*_{}[\]()#+.!-])/g, '\\$1'): character i of s lands at position
\* i + (the number of special characters among the first i), a backslash before it
\* when it is special
escapeMarkdown(s) ==
    LET specials == Table([i \in 0..Len(s) |->
                              Cardinality({j \in 1..i : s[j] \in MARKDOWN_SPECIALS})])
        Source(k) == CHOOSE i \in 1..Len(s) :
                         i + specials[i] >= k /\ i - 1 + specials[i - 1] < k
    IN  Table([k \in 1..(Len(s) + specials[Len(s)]) |->
                  IF Source(k) + specials[Source(k)] = k THEN s[Source(k)] ELSE "\\"])

\* s.split('\n')
RECURSIVE splitLines(_)
splitLines(s) ==
    LET breaks == {i \in 1..Len(s) : s[i] = "\n"}
    IN  IF breaks = {} THEN <<s>>
        ELSE <<SubSeq(s, 1, Min(breaks) - 1)>>
             \o splitLines(SubSeq(s, Min(breaks) + 1, Len(s)))

\* lines.join('\n')
RECURSIVE joinLines(_)
joinLines(lines) ==
    IF Len(lines) = 1 THEN lines[1]
    ELSE lines[1] \o <<"\n">> \o joinLines(Tail(lines))

\* s.replace(/\n{3,}/g, '\n\n')
collapseNewlines(s) ==
    LET IsNl(i) == i >= 1 /\ s[i] = "\n"
        Kept(i) == ~(IsNl(i) /\ IsNl(i - 1) /\ IsNl(i - 2))
        idx == SelectSeq([i \in 1..Len(s) |-> i], Kept)
    IN  [k \in 1..Len(idx) |-> s[idx[k]]]

\* '  '.repeat(listLevel > 0 ? listLevel - 1 : 0)
ListIndent(listLevel) == Rep(" ", 2 * (IF listLevel > 0 THEN listLevel - 1 ELSE 0))

\* the decimal digits of a positive list item number
RECURSIVE Digits(_)
Digits(i) ==
    LET d == <<"0", "1", "2", "3", "4", "5", "6", "7", "8", "9">>
    IN  (IF i >= 10 THEN Digits(i \div 10) ELSE <<>>) \o <<d[(i % 10) + 1]>>

\* new URL(href, baseURI).href for a path-absolute reference, a relative reference
\* or "//" (a reference with an empty host, for which the constructor throws: None);
\* the base is [origin, dir], dir being the base path up to and including its last "/"
resolveUrl(href, base) ==
    IF href = <<"/", "/">> THEN None
    ELSE IF Head(href) = "/" THEN Some(base.origin \o href)
    ELSE Some(base.origin \o base.dir \o href)

\* try { ref = new URL(ref, this.baseURI).href } catch { warn }
tryResolve(ref, base) == IF IsSome(resolveUrl(ref, base)) THEN Get(resolveUrl(ref, base)) ELSE ref

\* the test of the A branch: the href is resolved against the base
NeedsResolving(href) ==
    /\ href # <<>>
    /\ ~StartsWith(href, S_http) /\ ~StartsWith(href, S_hash)
    /\ ~StartsWith(href, S_mailto) /\ ~StartsWith(href, S_tel)

\* the href an A element is rendered with
LinkHref(info, base) ==
    LET href == IF "href" \in DOMAIN info.attributes THEN info.attributes["href"] ELSE <<>>
    IN  IF NeedsResolving(href) THEN tryResolve(href, base) ELSE href

\* utils.ts escapeHtml: '' for a falsy argument; each replace of this source maps a
\* character to itself
escapeHtml(s) == s

\* the src an IMG element is rendered with
ImageSrc(info, base) ==
    LET src == IF "src" \in DOMAIN info.attributes THEN info.attributes["src"] ELSE <<>>
    IN  IF src # <<>> /\ ~StartsWith(src, S_http) /\ ~StartsWith(src, S_data)
        THEN tryResolve(src, base) ELSE src

\* the fence language of a PRE: the \S+ after the first "language-" in the class
FenceLang(codeInfo) ==
    LET class == IF "class" \in DOMAIN codeInfo.attributes
                 THEN codeInfo.attributes["class"] ELSE <<>>
        n == Len(S_language)
        starts == {i \in 1..(Len(class) - n) :
                      SubSeq(class, i, i + n - 1) = S_language /\ class[i + n] \notin WS}
        from == Min(starts) + n
        stops == {i \in from..Len(class) : class[i] \in WS}
    IN  IF starts = {} THEN <<>>
        ELSE SubSeq(class, from, IF stops = {} THEN Len(class) ELSE Min(stops) - 1)

\* the LI / BLOCKQUOTE per-line rewriting
IndentLines(s, itemIndent) ==
    LET lines == splitLines(s)
    IN  joinLines([i \in 1..Len(lines) |->
                      IF i > 1 THEN itemIndent \o trim(lines[i]) ELSE trim(lines[i])])

QuoteLines(s, listIndent) ==
    LET lines == splitLines(s)
    IN  joinLines([i \in 1..Len(lines) |-> listIndent \o <<">", " ">> \o trim(lines[i])])

HeadingLevel(tagName) ==
    CASE tagName = "H1" -> 1 [] tagName = "H2" -> 2 [] tagName = "H3" -> 3
      [] tagName = "H4" -> 4 [] tagName = "H5" -> 5 [] tagName = "H6" -> 6

STRUCTURAL_TAGS ==
    {"DIV", "SPAN", "SECTION", "ARTICLE", "FIGURE", "FIGCAPTION", "HEADER", "FOOTER",
     "ASIDE", "NAV"}

\* the escaped own direct text of a node
ElementText(id, store) == escapeMarkdown(getInnerText(id, store, FALSE))

\* the switch on tagName, given the rendering of the children
RenderTag(id, listLevel, isListOrdered, listItemNumber, childrenMarkdown, store, base) ==
    LET info == store[id]
        tagName == info.tagName
        elementText == ElementText(id, store)
        listIndent == ListIndent(listLevel)
        content == trim(elementText \o childrenMarkdown)
        children == getChildrenIds(id, store)
        codeChildren == SelectSeq(children, LAMBDA c : store[c].tagName = "CODE")
    IN
    CASE tagName = "P" ->
            IF content # <<>> THEN listIndent \o content \o <<"\n", "\n">> ELSE <<>>
      [] tagName \in {"H1", "H2", "H3", "H4", "H5", "H6"} ->
            listIndent \o Rep("#", HeadingLevel(tagName)) \o <<" ">>
                \o elementText \o childrenMarkdown \o <<"\n", "\n">>
      [] tagName \in {"UL", "OL"} ->
            IF StartsWith(childrenMarkdown, <<"\n">>) THEN childrenMarkdown
            ELSE <<"\n">> \o childrenMarkdown
      [] tagName = "LI" ->
            listIndent
                \o (IF isListOrdered THEN Digits(listItemNumber) \o <<".">> ELSE <<"*">>)
                \o <<" ">> \o IndentLines(content, listIndent \o <<" ", " ">>) \o <<"\n">>
      [] tagName = "A" ->
            LET linkText == IF trim(childrenMarkdown) # <<>>
                            THEN trim(childrenMarkdown) ELSE elementText
            IN  <<"[">> \o escapeMarkdown(linkText) \o <<"]", "(">>
                    \o LinkHref(info, base) \o <<")">>
      [] tagName = "IMG" ->
            LET alt == IF "alt" \in DOMAIN info.attributes THEN info.attributes["alt"] ELSE <<>>
                title == IF "title" \in DOMAIN info.attributes /\ info.attributes["title"] # <<>>
                         THEN <<" ", "\"">> \o escapeHtml(info.attributes["title"]) \o <<"\"">>
                         ELSE <<>>
            IN  listIndent \o <<"!", "[">> \o escapeMarkdown(alt) \o <<"]", "(">>
                    \o ImageSrc(info, base) \o title \o <<")", "\n", "\n">>
      [] tagName = "PRE" ->
            LET codeContent == IF codeChildren # <<>>
                               THEN getInnerText(Head(codeChildren), store, FALSE)
                               ELSE getInnerText(id, store, FALSE)
                lang == IF codeChildren # <<>> THEN FenceLang(store[Head(codeChildren)]) ELSE <<>>
            IN  listIndent \o <<BACKTICK, BACKTICK, BACKTICK>> \o lang \o <<"\n">> \o trim(codeContent)
                    \o <<"\n">> \o listIndent \o <<BACKTICK, BACKTICK, BACKTICK, "\n", "\n">>
      [] tagName = "CODE" ->
            IF ~info.isCodeBlock THEN <<BACKTICK>> \o content \o <<BACKTICK>> ELSE <<>>
      [] tagName \in {"STRONG", "B"} ->
            <<"*", "*">> \o elementText \o childrenMarkdown \o <<"*", "*">>
      [] tagName \in {"EM", "I"} ->
            <<"*">> \o elementText \o childrenMarkdown \o <<"*">>
      [] tagName = "BLOCKQUOTE" ->
            QuoteLines(content, listIndent) \o <<"\n", "\n">>
      [] tagName = "HR" -> listIndent \o <<"-", "-", "-", "\n", "\n">>
      [] tagName = "BR" -> <<" ", " ", "\n">>
      [] tagName \in STRUCTURAL_TAGS -> elementText \o childrenMarkdown
      [] OTHER ->
            IF tagName \notin VOID_ELEMENTS THEN elementText \o childrenMarkdown ELSE <<>>

\* convertNodeRecursive(id, listLevel, isListOrdered, listItemNumber)
RECURSIVE convertNodeRecursive(_, _, _, _, _, _, _)
RECURSIVE ChildrenMarkdown(_, _, _, _, _, _, _)
ChildrenMarkdown(children, index, tagName, listLevel, store, keep, base) ==
    IF index >= Len(children) THEN <<>>
    ELSE convertNodeRecursive(
             children[index + 1],
             IF tagName \in {"UL", "OL", "LI"} THEN listLevel + 1 ELSE 0,
             tagName = "OL",
             IF tagName = "OL" THEN index + 1 ELSE 1,
             store, keep, base)
         \o ChildrenMarkdown(children, index + 1, tagName, listLevel, store, keep, base)
convertNodeRecursive(id, listLevel, isListOrdered, listItemNumber, store, keep, base) ==
    IF ~MapHas(store, id) \/ id \notin keep THEN <<>>
    ELSE RenderTag(id, listLevel, isListOrdered, listItemNumber,
                   ChildrenMarkdown(getChildrenIds(id, store), 0, store[id].tagName,
                                    listLevel, store, keep, base),
                   store, base)

RECURSIVE ConvertAll(_, _, _, _)
ConvertAll(ids, store, keep, base) ==
    IF ids = <<>> THEN <<>>
    ELSE convertNodeRecursive(Head(ids), 0, FALSE, 1, store, keep, base)
         \o ConvertAll(Tail(ids), store, keep, base)

\* convert(rootElementId): the root's children are rendered, not the root itself
convert(rootElementId, store, keep, base) ==
    trim(collapseNewlines(ConvertAll(getChildrenIds(rootElementId, store), store, keep, base)))

-----------------------------------------------------------------------------
(* html-rewriter-readability.ts: the HtmlRewriterReadability instance.  Its     *)
(* fields are the variables; Instance bundles them for the pure operators.      *)

Calls == 1..2

Instance ==
    [ elementStore |-> elementStore,
      elementsToKeepIdsSet |-> elementsToKeepIdsSet,
      metadataStore |-> metadataStore,
      metaObjs |-> metaObjs,
      elementCounter |-> elementCounter ]

\* new HtmlRewriterReadability(baseURI, options): the fields after construction
NewInstance ==
    [ elementStore |-> EmptyMap,
      elementsToKeepIdsSet |-> {},
      metadataStore |-> 1,
      metaObjs |-> <<EmptyMetadata>>,
      elementCounter |-> 0 ]

\* resetState() leaving every field as it is
resetState_keep(inst) == inst

\* resetState(): the store and the retained set are cleared in place, the metadata
\* field is pointed at a new object, the id counter restarts
resetState(inst) ==
    [ elementStore |-> EmptyMap,
      elementsToKeepIdsSet |-> {},
      metadataStore |-> Len(inst.metaObjs) + 1,
      metaObjs |-> Append(inst.metaObjs, EmptyMetadata),
      elementCounter |-> 0 ]

\* runPhase1 up to its await: resetState, then a new Phase1Handler over the
\* instance's store, the current metadata object and the instance's id counter
runPhase1_start(inst, opts) ==
    LET inst1 == resetState(inst)
    IN  [inst |-> inst1,
         h |-> NewPhase1Handler(inst1.metadataStore, opts.maxElemsToParse)]

WorldOf(inst) ==
    [ elementStore |-> inst.elementStore,
      elementCounter |-> inst.elementCounter,
      metaObjs |-> inst.metaObjs ]

WithWorld(inst, w) ==
    [inst EXCEPT !.elementStore = w.elementStore,
                 !.elementCounter = w.elementCounter,
                 !.metaObjs = w.metaObjs]

\* the parse events of the host's rewriter
EmptyAttrs == [k \in {} |-> <<>>]
NoElement == [tagName |-> "", attributes |-> EmptyAttrs, endTagFails |-> FALSE]
StartEvent(element) == [type |-> "start", element |-> element, chunk |-> <<>>, n |-> 0, fire |-> FALSE]
TextEvent(chunk) == [type |-> "text", element |-> NoElement, chunk |-> chunk, n |-> 0, fire |-> FALSE]
EndTagEvent(n, fire) == [type |-> "endTag", element |-> NoElement, chunk |-> <<>>, n |-> n, fire |-> fire]
DocumentEndEvent == [type |-> "end", element |-> NoElement, chunk |-> <<>>, n |-> 0, fire |-> FALSE]

\* The rewriter keeps the elements it has open (TRUE: an end-tag handler is
\* registered).  An end tag closes the top n of them: the n-1 above the one the tag
\* names have no end tag of their own, and their handlers run (fire) or not with it.
RECURSIVE FireEndTags(_, _, _, _, _)
FireEndTags(w, h, open, n, fire) ==
    IF n = 0 THEN [w |-> w, h |-> h]
    ELSE LET runs == Last(open) /\ (n = 1 \/ fire)
             r == IF runs THEN Phase1Handler_onEndTag(w, h) ELSE [w |-> w, h |-> h]
         IN  FireEndTags(r.w, r.h, Front(open), n - 1, fire)

HostHasEndTag(element) == element.tagName \notin VOID_ELEMENTS /\ ~element.endTagFails

\* an end tag closes elements the rewriter has open
HostCanDeliver(open, ev) == Len(open) >= (IF ev.type = "endTag" THEN ev.n ELSE 0)

\* one parse event delivered to the handler h of a call whose rewriter has `open`
Deliver(w, h, open, ev) ==
    IF ev.type = "start"
    THEN LET r == Phase1Handler_element(w, h, ev.element)
         IN  [w |-> r.w, h |-> r.h,
              open |-> IF HostHasEndTag(ev.element) THEN Append(open, r.registered) ELSE open]
    ELSE IF ev.type = "text"
    THEN LET r == Phase1Handler_text(w, h, ev.chunk)
         IN  [w |-> r.w, h |-> r.h, open |-> open]
    ELSE IF ev.type = "endTag"
    THEN LET r == FireEndTags(w, h, open, ev.n, ev.fire)
         IN  [w |-> r.w, h |-> r.h, open |-> SubSeq(open, 1, Len(open) - ev.n)]
    ELSE LET r == Phase1Handler_end(w, h)
         IN  [w |-> r.w, h |-> r.h, open |-> open]

SetInstanceInit(inst) ==
    /\ elementStore = inst.elementStore
    /\ elementsToKeepIdsSet = inst.elementsToKeepIdsSet
    /\ metadataStore = inst.metadataStore
    /\ metaObjs = inst.metaObjs
    /\ elementCounter = inst.elementCounter

SetInstance(inst) ==
    /\ elementStore' = inst.elementStore
    /\ elementsToKeepIdsSet' = inst.elementsToKeepIdsSet
    /\ metadataStore' = inst.metadataStore
    /\ metaObjs' = inst.metaObjs
    /\ elementCounter' = inst.elementCounter

\* call p has reset the instance and built its handler: r = [inst, h]
Started(p, r) ==
    /\ SetInstance(r.inst)
    /\ handler' = [handler EXCEPT ![p] = r.h]

\* process(response) is called: runPhase1 runs up to its await
StartProcess(p) ==
    /\ pc[p] = "idle"
    /\ Started(p, runPhase1_start(Instance, options))
    /\ pc' = [pc EXCEPT ![p] = "phase1"]
    /\ host' = [host EXCEPT ![p] = <<>>]
    /\ UNCHANGED <<options, baseURI, events, result, phase2>>

\* the handler of call p has run on an event, leaving r = [w, h, open]
Delivered(p, r) ==
    /\ SetInstance(WithWorld(Instance, r.w))
    /\ handler' = [handler EXCEPT ![p] = r.h]
    /\ host' = [host EXCEPT ![p] = r.open]

\* the rewriter delivers one parse event to the call's handler
HostEvent(p, ev) ==
    /\ pc[p] = "phase1"
    /\ HostCanDeliver(host[p], ev)
    /\ Delivered(p, Deliver(WorldOf(Instance), handler[p], host[p], ev))
    /\ events' = [events EXCEPT ![p] = Append(@, ev)]
    /\ pc' = [pc EXCEPT ![p] = IF ev.type = "end" THEN "ended" ELSE "phase1"]
    /\ UNCHANGED <<options, baseURI, result, phase2>>

Element(p, element) == HostEvent(p, StartEvent(element))

Text(p, chunk) == HostEvent(p, TextEvent(chunk))

EndTag(p, n, fire) == HostEvent(p, EndTagEvent(n, fire))

DocumentEnd(p) == HostEvent(p, DocumentEndEvent)

\* process() after runPhase2 returned r: the null check, the retained set, the
\* root to build from, convertToMarkdown, the value returned
process_return(inst, r, base) ==
    LET topCandidateId == r.returned.topCandidateId
        elementsToKeepIds == r.returned.elementsToKeepIds
        parentId == getParentId(topCandidateId, r.store)
        rootBuildId == IF parentId # NoId THEN parentId ELSE topCandidateId
    IN  IF topCandidateId = NoId \/ elementsToKeepIds = {}
        THEN [inst |-> [inst EXCEPT !.elementStore = r.store], threw |-> r.threw,
              value |-> None, phase2 |-> r]
        ELSE [inst |-> [inst EXCEPT !.elementStore = r.store,
                                    !.elementsToKeepIdsSet = elementsToKeepIds],
              threw |-> FALSE,
              value |-> Some([markdown |-> convert(rootBuildId, r.store, elementsToKeepIds, base),
                              metadata |-> inst.metadataStore]),
              phase2 |-> r]

\* process() from the point its await of runPhase1 resolves to its return
process_finish(inst, opts, base) ==
    process_return(inst, calculateScoresAndFindBestCandidate(inst.elementStore, opts), base)

NotReturned == [returned |-> FALSE, value |-> None]

\* call p returns r.value, or its promise rejects, leaving the instance as r.inst
Returns(p, r) ==
    /\ SetInstance(r.inst)
    /\ result' = [result EXCEPT ![p] = [returned |-> ~r.threw, value |-> r.value]]
    /\ phase2' = [phase2 EXCEPT ![p] = Some(r.phase2)]
    /\ pc' = [pc EXCEPT ![p] = IF r.threw THEN "threw" ELSE "done"]

\* the rest of process() runs to its return in one turn of the event loop
Finish(p) ==
    /\ pc[p] = "ended"
    /\ Returns(p, process_finish(Instance, options, baseURI))
    /\ UNCHANGED <<options, baseURI, handler, host, events>>

\* the value a returned call handed back, its metadata object dereferenced
ReturnedValue(p) ==
    IF result[p].value = None THEN None
    ELSE Some([markdown |-> Get(result[p].value).markdown,
               metadata |-> metaObjs[Get(result[p].value).metadata]])

BaseURI == [origin |-> S_origin, dir |-> S_dir]

\* the state after construction, no process() call made yet
InitIdle ==
    /\ SetInstanceInit(NewInstance)
    /\ baseURI = BaseURI
    /\ pc = [p \in Calls |-> "idle"]
    /\ handler = [p \in Calls |-> NewPhase1Handler(1, 0)]
    /\ host = [p \in Calls |-> <<>>]
    /\ events = [p \in Calls |-> <<>>]
    /\ result = [p \in Calls |-> NotReturned]
    /\ phase2 = [p \in Calls |-> None]

\* an element of the document: tag, attributes, and whether element.onEndTag throws
El(tagName, attributes, endTagFails) ==
    [tagName |-> tagName, attributes |-> attributes, endTagFails |-> endTagFails]

-----------------------------------------------------------------------------
(* One process() call run alone: the handler folded over a whole event sequence. *)

\* the rewriter delivers evs in order; s = [w, h, open]
RECURSIVE DeliverAll(_, _)
DeliverAll(s, evs) ==
    IF evs = <<>> \/ ~HostCanDeliver(s.open, Head(evs)) THEN s
    ELSE DeliverAll(Deliver(s.w, s.h, s.open, Head(evs)), Tail(evs))

\* runPhase1 on instance inst, the rewriter delivering evs
Streamed(inst, r) == [inst |-> WithWorld(inst, r.w), h |-> r.h, open |-> r.open]

Stream(s, evs) ==
    Streamed(s.inst, DeliverAll([w |-> WorldOf(s.inst), h |-> s.h, open |-> <<>>], evs))

runPhase1(inst, opts, evs) == Stream(runPhase1_start(inst, opts), evs)

\* process(response) on instance inst, nothing else touching the instance
process(inst, opts, base, evs) == process_finish(runPhase1(inst, opts, evs).inst, opts, base)

-----------------------------------------------------------------------------
(* Documents, written as the event sequences the rewriter delivers for them. *)

Attr(name, value) == [k \in {name} |-> value]

\* <tag attrs>text inner</tag>
Node(tagName, attributes, text, inner) ==
    <<StartEvent(El(tagName, attributes, FALSE))>>
        \o (IF text = <<>> THEN <<>> ELSE <<TextEvent(text)>>)
        \o inner \o <<EndTagEvent(1, FALSE)>>

Document(inner) == inner \o <<DocumentEndEvent>>

\* a text of len characters, commas of them commas
Txt(len, commas) == Rep(",", commas) \o Rep("a", len - commas)

RECURSIVE Repeat(_, _)
Repeat(evs, k) == IF k = 0 THEN <<>> ELSE evs \o Repeat(evs, k - 1)

Link(href, len) == Node("A", Attr("href", href), Txt(len, 0), <<>>)

\* a navigation block made of links
NavLinks == Node("NAV", EmptyAttrs, <<>>, Link(<<"#", "t">>, 8) \o Link(<<"/", "x">>, 8))

\* <body><article>(<p>text[<a>..</a>]</p>)*</article>[<nav>..</nav>]</body>
ArticleNav(articleAttrs, parLen, parCommas, parCount, linkLen, withNav) ==
    Document(
        Node("BODY", EmptyAttrs, <<>>,
            Node("ARTICLE", articleAttrs, <<>>,
                Repeat(Node("P", EmptyAttrs, Txt(parLen, parCommas),
                            IF linkLen > 0 THEN Link(<<"/", "x">>, linkLen) ELSE <<>>),
                       parCount))
            \o (IF withNav THEN NavLinks ELSE <<>>)))

ParLens == {20, 30, 120}
ParCommas == {0, 3}
ParCounts == {1, 2}
LinkLens == {0, 40}
ArticleAttrs == {EmptyAttrs, Attr("hidden", <<>>), Attr("class", <<"p","r","o","m","o">>)}

ArticleNavDocuments ==
    {ArticleNav(a, l, c, k, ll, nav) :
        a \in ArticleAttrs, l \in ParLens, c \in ParCommas, k \in ParCounts,
        ll \in LinkLens, nav \in BOOLEAN}

\* all the text sits in links: every candidate has link density 1
LinkOnlyDocument ==
    Document(Node("BODY", EmptyAttrs, <<>>,
        Node("DIV", EmptyAttrs, <<>>,
            Node("A", Attr("href", <<"/", "x">>), <<>>,
                Node("P", EmptyAttrs, Txt(30, 0), <<>>)))))

\* nothing scorable: a heading and a list
NoScorableDocument ==
    Document(Node("BODY", EmptyAttrs, <<>>,
        Node("H1", EmptyAttrs, Txt(30, 0), <<>>)
        \o Node("UL", EmptyAttrs, <<>>, Node("LI", EmptyAttrs, Txt(30, 0), <<>>))))

EmptyDocument == Document(<<>>)

\* <body><address><section>t1<div><p>t5</p></div></section></address>
\*       <div><p>t7</p></div></body>
NestedWrappers(c1, c5, c7) ==
    Document(Node("BODY", EmptyAttrs, <<>>,
        Node("ADDRESS", EmptyAttrs, <<>>,
            Node("SECTION", EmptyAttrs, Txt(c1 + 2, c1),
                Node("DIV", EmptyAttrs, <<>>,
                    Node("P", EmptyAttrs, Txt(c5 + 2, c5), <<>>))))
        \o Node("DIV", EmptyAttrs, <<>>,
               Node("P", EmptyAttrs, Txt(30, c7), <<>>))))

NestedWrapperDocuments ==
    {NestedWrappers(c1, c5, c7) : c1 \in {23, 58}, c5 \in {23, 38}, c7 \in {0, 3}}

\* the tags with a bias of their own, and one without
SeedTags ==
    {"ARTICLE", "DIV", "PRE", "TD", "BLOCKQUOTE", "ADDRESS", "OL", "UL", "DL", "DD", "DT",
     "LI", "FORM", "H1", "H2", "H3", "H4", "H5", "H6", "TH", "SECTION"}

\* <body><tag><p>thirty characters</p></tag></body>
Seeded(tagName, attributes) ==
    Document(Node("BODY", EmptyAttrs, <<>>,
        Node(tagName, attributes, <<>>, Node("P", EmptyAttrs, Txt(30, 0), <<>>))))

SeedDocuments == {Seeded(t, a) : t \in SeedTags, a \in ArticleAttrs}

\* <body><div hidden|visible><article><p>..</p></article></div><nav>..</nav></body>
Wrapped(wrapperAttrs) ==
    Document(Node("BODY", EmptyAttrs, <<>>,
        Node("DIV", wrapperAttrs, <<>>,
            Node("ARTICLE", EmptyAttrs, <<>>, Node("P", EmptyAttrs, Txt(30, 0), <<>>)))
        \o NavLinks))

WrappedDocuments == {Wrapped(a) : a \in {EmptyAttrs, Attr("hidden", <<>>)}}

\* <body><div><p>text<a><a>link text</a></a></p></div></body>: an anchor in an anchor
NestedLinks(textLen, linkLen) ==
    Document(Node("BODY", EmptyAttrs, <<>>,
        Node("DIV", EmptyAttrs, <<>>,
            Node("P", EmptyAttrs, Txt(textLen, 0),
                Node("A", Attr("href", <<"/", "x">>), <<>>,
                    Node("A", Attr("href", <<"/", "x">>), Txt(linkLen, 0), <<>>))))))

NestedLinkDocuments == {NestedLinks(30, l) : l \in {8, 40}}

ScorerDocuments ==
    ArticleNavDocuments \cup NestedWrapperDocuments \cup SeedDocuments
        \cup WrappedDocuments \cup NestedLinkDocuments
        \cup {LinkOnlyDocument, NoScorableDocument, EmptyDocument}

CharThresholds == {25, 100}

-----------------------------------------------------------------------------
(* The scorer and the serializer on completed stores: call 1 has streamed a    *)
(* document of ScorerDocuments and process() resumes after its await.          *)

\* call 1 has streamed doc, leaving r = [inst, h, open]
InitStreamed(doc, r) ==
    /\ SetInstanceInit(r.inst)
    /\ baseURI = BaseURI
    /\ pc = [p \in Calls |-> IF p = 1 THEN "ended" ELSE "idle"]
    /\ handler = [p \in Calls |-> IF p = 1 THEN r.h ELSE NewPhase1Handler(1, 0)]
    /\ host = [p \in Calls |-> IF p = 1 THEN r.open ELSE <<>>]
    /\ events = [p \in Calls |-> IF p = 1 THEN doc ELSE <<>>]
    /\ result = [p \in Calls |-> NotReturned]
    /\ phase2 = [p \in Calls |-> None]

InitEnded(doc) == InitStreamed(doc, runPhase1(NewInstance, options, doc))

InitScorer ==
    /\ options \in {[charThreshold |-> t, maxElemsToParse |-> 0] : t \in CharThresholds}
    /\ \E doc \in ScorerDocuments : InitEnded(doc)

NextScorer == Finish(1)

SpecScorer == InitScorer /\ [][NextScorer]_vars

-----------------------------------------------------------------------------
(* Properties of the scorer and of what process() returns, over SpecScorer. *)

\* the length of the visible own text of the elements ids of store
RECURSIVE VisibleTextLength(_, _)
VisibleTextLength(ids, store) ==
    IF ids = {} THEN 0
    ELSE LET id == Min(ids)
         IN  (IF MapHas(store, id) /\ store[id].isVisibleBasedOnAttrs
              THEN Len(trim(collapseSpaces(store[id].finalTextContent))) ELSE 0)
             + VisibleTextLength(ids \ {id}, store)

Returned(p) == result[p].returned /\ result[p].value # None

ScorerReturned(p) == phase2[p] # None /\ Get(phase2[p]).returned.topCandidateId # NoId

\* C1: whenever process() or the scorer returns a result rather than null / an empty
\* result, the visible own text of the retained elements is at least charThreshold
\* characters long.
C1_ThresholdGate ==
    \A p \in Calls :
        /\ Returned(p) =>
              VisibleTextLength(elementsToKeepIdsSet, elementStore) >= options.charThreshold
        /\ ScorerReturned(p) =>
              VisibleTextLength(Get(phase2[p]).returned.elementsToKeepIds, Get(phase2[p]).store)
                  >= options.charThreshold

\* a result was returned under the larger threshold, and a candidate was found
C1_Witness ==
    \E p \in Calls :
        /\ Returned(p) /\ ScorerReturned(p)
        /\ options.charThreshold = Max(CharThresholds)
        /\ elementsToKeepIdsSet # {}

\* the candidates of the scorer run of call p with a final score > 0
PositiveCandidates(p) ==
    {c \in Range(Get(phase2[p]).candidates) :
        RLess(RInt(0), Get(Get(phase2[p]).store[c].readability))}

\* C2: if after link-density adjustment no candidate has a final score > 0, the
\* scorer returns (no candidate, empty retained set) and process() returns null.
C2_NoPositiveCandidate ==
    \A p \in Calls :
        (phase2[p] # None /\ PositiveCandidates(p) = {}) =>
            /\ Get(phase2[p]).returned = NoResult
            /\ result[p] = [returned |-> TRUE, value |-> None]

\* the scorer ran on a store with candidates, none of them positive, and process()
\* returned null
C2_Witness ==
    \E p \in Calls :
        /\ phase2[p] # None
        /\ Get(phase2[p]).candidates # <<>>
        /\ PositiveCandidates(p) = {}
        /\ result[p] = [returned |-> TRUE, value |-> None]

\* the siblings of the final candidate of call p whose score (0 when unscored) is
\* below max(10, 0.2 * the final candidate's score)
SiblingsBelowThreshold(p) ==
    LET r == Get(phase2[p])
        siblings == Range(getChildrenIds(getParentId(r.topCandidateId, r.store), r.store))
    IN  {s \in siblings \ {r.topCandidateId} :
            RLess(ScoreOrZero(s, r.store),
                  RMax(RInt(10), RMul(ScoreOrZero(r.topCandidateId, r.store), Rat(1, 5))))}

\* C8: a sibling of the final candidate that is not the candidate and whose score is
\* below max(10, 0.2 * candidate score) is not retained, and neither is any of its
\* descendants.
C8_LowSiblingNotRetained ==
    \A p \in Calls :
        (phase2[p] # None /\ Get(phase2[p]).topCandidateId # NoId) =>
            WithDescendants(SiblingsBelowThreshold(p), Get(phase2[p]).store)
                \cap Get(phase2[p]).returned.elementsToKeepIds = {}


\* the scorer run of call p has ended without throwing
ScorerRan(p) == phase2[p] # None /\ ~Get(phase2[p]).threw

\* the elements whose score is propagated: visible, eligible, of a scorable tag, with
\* own text of at least 25 characters and an ancestor
ScoredElements(store) ==
    {e \in DOMAIN store :
        /\ store[e].isVisibleBasedOnAttrs /\ ~isUnlikelyCandidate(e, store)
        /\ store[e].tagName \in DEFAULT_TAGS_TO_SCORE
        /\ Len(getInnerText(e, store, TRUE)) >= 25
        /\ getAncestorIds(e, store, 5) # <<>>}

\* 1 + (number of commas) + min(floor(length / 100), 3)
StatedContentScore(text) ==
    1 + Cardinality({i \in 1..Len(text) : text[i] \in COMMAS})
      + (IF Len(text) \div 100 < 3 THEN Len(text) \div 100 ELSE 3)

\* what the scored elements es add to the score of id, each giving its content score
\* divided by the divider of the level at which id is its ancestor (stated: the
\* content score is the stated formula, else what the scorer computes)
RECURSIVE PropagatedTo(_, _, _, _)
PropagatedTo(id, es, store, stated) ==
    IF es = {} THEN RInt(0)
    ELSE LET e == Min(es)
             ancestorIds == getAncestorIds(e, store, 5)
             levels == {l \in 0..(Len(ancestorIds) - 1) : ancestorIds[l + 1] = id}
             text == getInnerText(e, store, TRUE)
             contentScore == IF stated THEN StatedContentScore(text) ELSE ContentScoreOf(text)
             share == IF levels = {} THEN RInt(0)
                      ELSE Rat(contentScore, ScoreDivider(Min(levels)))
         IN  RAdd(share, PropagatedTo(id, es \ {e}, store, stated))

\* 1 - linkDensity for a candidate, 1 for an element that is no candidate
DensityFactor(id, r) ==
    IF id \in Range(r.candidates)
    THEN RAdd(RInt(1), [n |-> -getLinkDensity(id, r.store).n, d |-> getLinkDensity(id, r.store).d])
    ELSE RInt(1)

\* the elements the scorer run r gave a score
Initialized(r) == {id \in DOMAIN r.store : r.store[id].readability # None}

\* C16: a scored element with own text of at least 25 characters gives its ancestors
\* 1 + commas + min(floor(length / 100), 3): the score of every initialized element
\* is its seed plus these contributions, each divided by its level's divider, times
\* the link-density factor.
C16_BaseScore ==
    \A p \in Calls :
        ScorerRan(p) =>
            LET r == Get(phase2[p])
            IN  \A id \in Initialized(r) :
                    Get(r.store[id].readability)
                        = RMul(RAdd(RInt(initializeNodeScore(id, r.store)),
                                    PropagatedTo(id, ScoredElements(r.store), r.store, TRUE)),
                               DensityFactor(id, r))

\* the same with the content score the scorer computes
ScoresAsComputed ==
    \A p \in Calls :
        ScorerRan(p) =>
            LET r == Get(phase2[p])
            IN  \A id \in Initialized(r) :
                    Get(r.store[id].readability)
                        = RMul(RAdd(RInt(initializeNodeScore(id, r.store)),
                                    PropagatedTo(id, ScoredElements(r.store), r.store, FALSE)),
                               DensityFactor(id, r))

\* +5 article/div, +3 pre/td/blockquote, -3 list, definition and form-like tags,
\* -5 headings and th, 0 otherwise
StatedTagBias(tagName) ==
    IF tagName \in {"ARTICLE", "DIV"} THEN 5
    ELSE IF tagName \in {"PRE", "TD", "BLOCKQUOTE"} THEN 3
    ELSE IF tagName \in {"ADDRESS", "OL", "UL", "DL", "DD", "DT", "LI", "FORM"} THEN -3
    ELSE IF tagName \in {"H1", "H2", "H3", "H4", "H5", "H6", "TH"} THEN -5
    ELSE 0

\* the initialized elements of run r with no link text below them
Unlinked(r) == {id \in Initialized(r) : getLinkDensity(id, r.store) = RInt(0)}

\* C17: the seed of a first-visited ancestor is its tag bias plus its class/id
\* weight: the score of an initialized element with no link text below it is that
\* seed plus what was propagated to it.
C17_SeedByTag ==
    \A p \in Calls :
        ScorerRan(p) =>
            LET r == Get(phase2[p])
            IN  \A id \in Unlinked(r) :
                    Get(r.store[id].readability)
                        = RAdd(RInt(StatedTagBias(r.store[id].tagName) + getClassWeight(id, r.store)),
                               PropagatedTo(id, ScoredElements(r.store), r.store, FALSE))

\* C18: the candidates of a scorer run are exactly the elements whose score was
\* initialized during propagation, whatever the sign of the seed.
C18_CandidatesAreInitialized ==
    \A p \in Calls :
        ScorerRan(p) => Range(Get(phase2[p]).candidates) = Initialized(Get(phase2[p]))

\* the candidates are the initialized elements with a seed of at least 0
CandidatesAreNonNegativeSeeds ==
    \A p \in Calls :
        ScorerRan(p) =>
            Range(Get(phase2[p]).candidates)
                = {id \in Initialized(Get(phase2[p])) :
                      initializeNodeScore(id, Get(phase2[p]).store) >= 0}

\* C19: the candidate score the sibling threshold is computed from is the score of
\* the final candidate, the sole-child climb included.
C19_ScoreFollowsCandidate ==
    \A p \in Calls :
        (ScorerRan(p) /\ Get(phase2[p]).topCandidateId # NoId) =>
            LET r == Get(phase2[p])
            IN  /\ r.store[r.topCandidateId].readability # None
                /\ r.topCandidateScore = Get(r.store[r.topCandidateId].readability)

\* the sole-child climb as stated: to the parent while the candidate is its only
\* child and the parent is not a BODY
RECURSIVE StatedSoleChildClimb(_, _)
StatedSoleChildClimb(id, store) ==
    LET parentId == getParentId(id, store)
    IN  IF /\ parentId # NoId
           /\ getChildrenIds(parentId, store) = <<id>>
           /\ store[parentId].tagName # "BODY"
        THEN StatedSoleChildClimb(parentId, store)
        ELSE id

\* the candidate the sole-child climb of run r starts from
ClimbStart(r) ==
    ClimbToParent([id |-> r.initialTopCandidateId,
                   score |-> Get(r.store[r.initialTopCandidateId].readability)], r.store).id

\* C20: the sole-child climb moves the candidate to its parent only while it is the
\* only child and the parent is not a BODY: it never makes a BODY the candidate and
\* it stops at the first parent with more than one child.
C20_SoleChildClimb ==
    \A p \in Calls :
        (ScorerRan(p) /\ Get(phase2[p]).topCandidateId # NoId) =>
            LET r == Get(phase2[p])
            IN  /\ r.topCandidateId = StatedSoleChildClimb(ClimbStart(r), r.store)
                /\ r.topCandidateId # ClimbStart(r) => r.store[r.topCandidateId].tagName # "BODY"

\* C21: when the final candidate has a parent, the sibling merge keeps the candidate:
\* the candidate and all its descendants are in the retained set the merge builds,
\* whatever the candidate's score, visibility or tag.
C21_CandidateKept ==
    \A p \in Calls :
        (ScorerRan(p) /\ Get(phase2[p]).topCandidateId # NoId) =>
            LET r == Get(phase2[p])
            IN  getParentId(r.topCandidateId, r.store) # NoId =>
                    WithDescendants({r.topCandidateId}, r.store) \subseteq r.elementsToKeepIds

\* the same for a final candidate that is visible
VisibleCandidateKept ==
    \A p \in Calls :
        (ScorerRan(p) /\ Get(phase2[p]).topCandidateId # NoId) =>
            LET r == Get(phase2[p])
            IN  (/\ getParentId(r.topCandidateId, r.store) # NoId
                 /\ r.store[r.topCandidateId].isVisibleBasedOnAttrs) =>
                    WithDescendants({r.topCandidateId}, r.store) \subseteq r.elementsToKeepIds

\* the link density of element id of store lies between 0 and 1
DensityInRange(id, store) ==
    /\ RLeq(RInt(0), getLinkDensity(id, store))
    /\ RLeq(getLinkDensity(id, store), RInt(1))

\* C24: the link density of every element of every store is between 0 and 1, so the
\* final score of a candidate, base * (1 - linkDensity), never has the opposite sign
\* of its base score.
C24_LinkDensityRange ==
    \A p \in Calls :
        ScorerRan(p) =>
            LET r == Get(phase2[p])
            IN  /\ \A id \in DOMAIN r.store : DensityInRange(id, r.store)
                /\ \A id \in Range(r.candidates) :
                      LET base == RAdd(RInt(initializeNodeScore(id, r.store)),
                                       PropagatedTo(id, ScoredElements(r.store), r.store, FALSE))
                          final == Get(r.store[id].readability)
                      IN  /\ RLess(RInt(0), base) => RLeq(RInt(0), final)
                          /\ RLess(base, RInt(0)) => RLeq(final, RInt(0))

\* the same for the elements with no anchor below an anchor
NoNestedAnchor(id, store) ==
    \A a \in Range(getDescendantIds(id, store)) \cup {id} :
        store[a].tagName = "A" =>
            \A b \in Range(getDescendantIds(a, store)) : store[b].tagName # "A"

DensityInRangeUnnested ==
    \A p \in Calls :
        ScorerRan(p) =>
            \A id \in DOMAIN Get(phase2[p]).store :
                NoNestedAnchor(id, Get(phase2[p]).store) => DensityInRange(id, Get(phase2[p]).store)

-----------------------------------------------------------------------------
(* The scorer applied a second time to the store its first run has left.       *)

\* calculateScoresAndFindBestCandidate is called again on the instance's store
\* with the same options
Rescore(p) ==
    /\ pc[p] = "done"
    /\ LET r == calculateScoresAndFindBestCandidate(elementStore, options)
       IN  /\ elementStore' = r.store
           /\ phase2' = [phase2 EXCEPT ![p] = Some(r)]
    /\ pc' = [pc EXCEPT ![p] = "rescored"]
    /\ UNCHANGED <<options, baseURI, metadataStore, metaObjs, elementCounter,
                   elementsToKeepIdsSet, handler, host, events, result>>

InitRescore == InitScorer

NextRescore == Finish(1) \/ Rescore(1)

SpecRescore == InitRescore /\ [][NextRescore]_vars

\* C22: the scorer applied twice in a row to the same completed store with the same
\* options returns the same candidate id and the same retained set both times.
C22_ScorerRepeatable ==
    [][\A p \in Calls :
          (pc[p] = "done" /\ pc'[p] = "rescored") =>
              Get(phase2'[p]).returned = Get(phase2[p]).returned
    ]_vars
-----------------------------------------------------------------------------
(* Phase 1 alone: one process() call fed every event sequence of at most       *)
(* MaxEvents events over a small alphabet.                                     *)

MaxEvents == 5

ChunkX == <<"a", "*", "b">>
ChunkY == <<"c">>
ChunkBlank == <<" ", "\n">>

BuilderElements == { El("DIV", EmptyAttrs, FALSE), El("BR", EmptyAttrs, FALSE) }
BuilderChunks == {ChunkX, ChunkY, ChunkBlank}

InitPhase1 ==
    /\ options \in {[charThreshold |-> CHAR_THRESHOLD, maxElemsToParse |-> 0]}
    /\ InitIdle

NextPhase1 ==
    \/ StartProcess(1)
    \/ /\ Len(events[1]) < MaxEvents
       /\ \/ \E element \in BuilderElements : Element(1, element)
          \/ \E chunk \in BuilderChunks : Text(1, chunk)
          \/ \E n \in 1..2 : \E fire \in (IF n = 1 THEN {FALSE} ELSE BOOLEAN) : EndTag(1, n, fire)
          \/ DocumentEnd(1)
    \/ Finish(1)

SpecPhase1 == InitPhase1 /\ [][NextPhase1]_vars

-----------------------------------------------------------------------------
(* Properties of the Phase-1 handlers, over SpecPhase1. *)

\* the open element a text chunk delivered to call p now goes to
OpenElement(p) == getCurrentElementIdFromStack(handler[p])

\* the chunk buffer of element id
ChunksOf(store, id) == IF IsSome(store[id].textChunks) THEN Get(store[id].textChunks) ELSE <<>>

\* the last k events delivered to call p are evs
LastEvents(p, evs) ==
    /\ Len(events[p]) >= Len(evs)
    /\ SubSeq(events[p], Len(events[p]) - Len(evs) + 1, Len(events[p])) = evs

\* this step delivers chunk to the open element of call p
TextStep(p, chunk) ==
    /\ pc[p] = "phase1"
    /\ OpenElement(p) # NoId
    /\ events'[p] = Append(events[p], TextEvent(chunk))

Significant(chunk) == trim(chunk) # <<>>

\* every record is finalized: no open element, no chunk buffer left
AllFinalized(p) ==
    /\ handler[p].elementStack = <<>>
    /\ \A id \in DOMAIN elementStore : elementStore[id].textChunks = None

\* C3: after the document-end event every record of the store is finalized: the
\* elements still on the open-element stack have been popped and their chunk
\* buffers merged and released.
C3_FinalizedAtDocumentEnd ==
    \A p \in Calls : pc[p] \in {"ended", "done"} => AllFinalized(p)

\* C4: a chunk X delivered to an open element immediately after X leaves the
\* element's chunks as they were; X delivered after X, Y with Y different from X is
\* appended, the chunks then ending X, Y, X.
C4_AdjacentDuplicates ==
    [][\A p \in Calls : \A X \in BuilderChunks :
          /\ (TextStep(p, X) /\ Significant(X) /\ LastEvents(p, <<TextEvent(X)>>)) =>
                elementStore' = elementStore
          /\ \A Y \in BuilderChunks \ {X} :
                (/\ TextStep(p, X) /\ Significant(X) /\ Significant(Y)
                 /\ LastEvents(p, <<TextEvent(X), TextEvent(Y)>>)) =>
                    LET before == ChunksOf(elementStore, OpenElement(p))
                        after == ChunksOf(elementStore', OpenElement(p))
                    IN  /\ after = Append(before, X)
                        /\ Len(after) >= 3
                        /\ SubSeq(after, Len(after) - 2, Len(after)) = <<X, Y, X>>
    ]_vars

\* an element was sent X, X, Y, X and holds the chunks X, Y, X
C4_Witness ==
    /\ LastEvents(1, <<TextEvent(ChunkX), TextEvent(ChunkX), TextEvent(ChunkY), TextEvent(ChunkX)>>)
    /\ OpenElement(1) # NoId
    /\ ChunksOf(elementStore, OpenElement(1)) = <<ChunkX, ChunkY, ChunkX>>

\* the last events of call p are X to the open element, then a child element that
\* has started inside it and, unless it is void, closed again
ChildSince(p, X) ==
    \E child \in BuilderElements :
        \/ /\ child.tagName \in VOID_ELEMENTS
           /\ LastEvents(p, <<TextEvent(X), StartEvent(child)>>)
        \/ /\ child.tagName \notin VOID_ELEMENTS
           /\ LastEvents(p, <<TextEvent(X), StartEvent(child), EndTagEvent(1, FALSE)>>)

\* C5: when chunk X was recorded for an open element E and a child element has since
\* started inside E (and closed, unless void), X delivered to E again is appended to
\* E's chunks.
C5_ChildResetsDuplicateCheck ==
    [][\A p \in Calls : \A X \in BuilderChunks :
          (TextStep(p, X) /\ Significant(X) /\ ChildSince(p, X)) =>
              ChunksOf(elementStore', OpenElement(p))
                  = Append(ChunksOf(elementStore, OpenElement(p)), X)
    ]_vars


\* the records of call 1's extraction are kept by this step, ids and parents included
RecordsKept ==
    \A id \in DOMAIN elementStore :
        /\ id \in DOMAIN elementStore'
        /\ elementStore'[id].id = id
        /\ elementStore'[id].parentId = elementStore[id].parentId
        /\ elementStore'[id].tagName = elementStore[id].tagName

\* C13: every record with a parent id has a parent that is already in the store and
\* has a smaller id; a new record's id is larger than every id in the store, and no
\* record of the extraction is replaced: no forward reference, no cycle.
C13_ParentsPrecede ==
    [][/\ \A id \in DOMAIN elementStore' :
             LET parentId == elementStore'[id].parentId
             IN  parentId # NoId => parentId \in DOMAIN elementStore' /\ parentId < id
       /\ \A id \in DOMAIN elementStore' \ DOMAIN elementStore :
             \A old \in DOMAIN elementStore : old < id
       /\ pc[1] # "idle" => RecordsKept
    ]_vars

\* three records nested in each other and a fourth beside the third
C13_Witness ==
    /\ DOMAIN elementStore = 1..4
    /\ elementStore[2].parentId = 1
    /\ elementStore[3].parentId = 2
    /\ elementStore[4].parentId = 2

-----------------------------------------------------------------------------
(* Metadata collection: one call fed HTML, META and TITLE elements.            *)

LangEn == <<"e", "n">>
DirLtr == <<"l", "t", "r">>

MetadataElements ==
    { El("HTML", Attr("lang", LangEn) @@ Attr("dir", DirLtr), FALSE),
      El("HTML", EmptyAttrs, FALSE),
      El("META", Attr("property", S_og_title) @@ Attr("content", ChunkY), FALSE),
      El("TITLE", EmptyAttrs, FALSE) }

InitMetadata == InitPhase1

NextMetadata ==
    \/ StartProcess(1)
    \/ /\ Len(events[1]) < MaxEvents
       /\ \/ \E element \in MetadataElements : Element(1, element)
          \/ Text(1, ChunkX)
          \/ EndTag(1, 1, FALSE)
          \/ DocumentEnd(1)
    \/ Finish(1)

SpecMetadata == InitMetadata /\ [][NextMetadata]_vars

\* the Metadata object the handler of call p writes to
MetadataOf(p) == metaObjs[handler[p].metadataStore]

\* field k of the metadata of call p is kept by this step if it was set
FieldKept(p, k) == ~Falsy(MetadataOf(p)[k]) => MetadataOf(p)'[k] = MetadataOf(p)[k]

\* C11: every metadata field is first-writer-wins: once a field is set during an
\* extraction, no later event of the extraction changes or clears it.
C11_FirstWriterWins ==
    [][\A p \in Calls : pc[p] = "phase1" => \A k \in MetadataKeys : FieldKept(p, k)]_vars

\* the fields a META element or a TITLE end tag writes
MetaTagFields == MetadataKeys \ {"lang", "dir"}

\* the same for the fields written by META elements and TITLE end tags only
MetaTagFieldsKept ==
    [][\A p \in Calls : pc[p] = "phase1" => \A k \in MetaTagFields : FieldKept(p, k)]_vars

-----------------------------------------------------------------------------
(* The max-elements cap and the skipped tags: one call fed well-nested event   *)
(* sequences of recorded, void and skipped elements under a cap of 0, 1 or 2.  *)

Caps == {0, 1, 2}

CapElements ==
    { El("DIV", EmptyAttrs, FALSE), El("BR", EmptyAttrs, FALSE),
      El("SCRIPT", EmptyAttrs, FALSE) }

InitCap ==
    /\ options \in {[charThreshold |-> CHAR_THRESHOLD, maxElemsToParse |-> n] : n \in Caps}
    /\ InitIdle

\* the tags of the elements the rewriter has open after evs (well nested)
RECURSIVE OpenTags(_)
OpenTags(evs) ==
    IF evs = <<>> THEN <<>>
    ELSE LET ev == Last(evs)
             open == OpenTags(Front(evs))
         IN  IF ev.type = "start" /\ ev.element.tagName \notin VOID_ELEMENTS
             THEN Append(open, ev.element.tagName)
             ELSE IF ev.type = "endTag" THEN Front(open) ELSE open

\* the content of a script or style element is raw text: no tag is recognised in it
RAW_TEXT_TAGS == {"SCRIPT", "STYLE"}

InRawText(p) == OpenTags(events[p]) # <<>> /\ Last(OpenTags(events[p])) \in RAW_TEXT_TAGS

NextCap ==
    \/ StartProcess(1)
    \/ /\ Len(events[1]) < MaxEvents
       /\ \/ \E element \in CapElements : ~InRawText(1) /\ Element(1, element)
          \/ Text(1, ChunkX)
          \/ EndTag(1, 1, FALSE)
          \/ DocumentEnd(1)
    \/ Finish(1)

SpecCap == InitCap /\ [][NextCap]_vars

\* this step delivers the start tag of element to call p
StartStep(p, element) ==
    /\ pc[p] = "phase1"
    /\ events'[p] = Append(events[p], StartEvent(element))

\* this step delivers to call p the end tag of the element on top of its stack
OwnEndTagStep(p) ==
    /\ pc[p] = "phase1"
    /\ events'[p] = Append(events[p], EndTagEvent(1, FALSE))
    /\ Last(host[p])

\* the start tags among the events evs
StartEvents(evs) == {i \in 1..Len(evs) : evs[i].type = "start"}

\* C12: under a cap N > 0 the store never holds more than N records, a start tag
\* arriving at the cap is dropped without an error and the call goes on, and an
\* element open when the cap was reached is popped and its chunks merged when its
\* end tag arrives; under cap 0 every start tag of a recorded element adds a record.
C12_SoftCap ==
    [][\A p \in Calls :
          LET N == options.maxElemsToParse
              atCap == N > 0 /\ handler[p].elementCount >= N
              id == OpenElement(p)
          IN  /\ N > 0 => Cardinality(DOMAIN elementStore') <= N
              /\ \A element \in CapElements :
                    StartStep(p, element) =>
                        /\ pc'[p] = "phase1"
                        /\ atCap => elementStore' = elementStore /\ handler' = handler
                        /\ (N = 0 /\ ~IsSkippedElement(element)) =>
                              Cardinality(DOMAIN elementStore')
                                  = Cardinality(DOMAIN elementStore) + 1
              /\ (OwnEndTagStep(p) /\ atCap) =>
                    /\ handler'[p].elementStack = Front(handler[p].elementStack)
                    /\ elementStore'[id].textChunks = None
                    /\ elementStore'[id].finalTextContent = join(ChunksOf(elementStore, id))
    ]_vars

\* under cap 1 a start tag was dropped, and the element open at that point has been
\* closed since, its text merged
C12_Witness ==
    /\ options.maxElemsToParse = 1
    /\ Cardinality(StartEvents(events[1])) > 1
    /\ handler[1].elementStack = <<>>
    /\ DOMAIN elementStore = {1}
    /\ elementStore[1].textChunks = None
    /\ elementStore[1].finalTextContent = ChunkX

\* the merged text of a record, closed or still open
MergedText(info) ==
    IF IsSome(info.textChunks) THEN join(Get(info.textChunks)) ELSE info.finalTextContent

\* the records of a store and the merged text of each
FinalStore(store) ==
    [id \in DOMAIN store |->
        [tagName |-> store[id].tagName, parentId |-> store[id].parentId,
         text |-> MergedText(store[id])]]

\* evs without its skipped elements: the start of each, the events nested in it and
\* its end tag are removed (depth: how many elements are open inside a skipped one)
RECURSIVE WithoutSkipped(_, _)
WithoutSkipped(evs, depth) ==
    IF evs = <<>> THEN <<>>
    ELSE LET ev == Head(evs)
             opens == ev.type = "start" /\ ev.element.tagName \notin VOID_ELEMENTS
         IN  IF depth = 0
             THEN IF ev.type = "start" /\ IsSkippedElement(ev.element)
                  THEN WithoutSkipped(Tail(evs), IF opens THEN 1 ELSE 0)
                  ELSE <<ev>> \o WithoutSkipped(Tail(evs), 0)
             ELSE IF ev.type = "end" THEN <<ev>>
                  ELSE WithoutSkipped(Tail(evs),
                           IF opens THEN depth + 1
                           ELSE IF ev.type = "endTag" THEN depth - 1 ELSE depth)

\* C14: a skipped element (script, style, noscript, iframe, stylesheet link) and its
\* subtree contribute nothing: at document end the records and their merged texts
\* are those the same events give with the skipped elements' start tags, nested
\* events and end tags removed.
C14_SkippedSubtreeIgnored ==
    \A p \in Calls :
        pc[p] = "ended" =>
            FinalStore(elementStore)
                = FinalStore(runPhase1(NewInstance, options,
                                       WithoutSkipped(events[p], 0)).inst.elementStore)

-----------------------------------------------------------------------------
(* The open-element stack, over SpecPhase1. *)

\* every end tag of evs closes one element, the innermost open one
WellNested(evs) == \A i \in 1..Len(evs) : evs[i].type = "endTag" => evs[i].n = 1

\* the ids of the elements open after the well-nested events evs, none of them
\* skipped or dropped: the k-th start tag creates record k
RECURSIVE OpenIds(_)
OpenIds(evs) ==
    IF evs = <<>> THEN <<>>
    ELSE LET ev == Last(evs)
             open == OpenIds(Front(evs))
         IN  IF ev.type = "start" /\ ev.element.tagName \notin VOID_ELEMENTS
             THEN Append(open, Cardinality(StartEvents(evs)))
             ELSE IF ev.type = "endTag" THEN Front(open) ELSE open

\* the stack of call p holds ids of recorded non-void elements in increasing order,
\* each entry's parent the entry below it, the bottom entry's parent not on the stack
StackShape(p) ==
    LET stack == handler[p].elementStack
    IN  \A i \in 1..Len(stack) :
            /\ stack[i] \in DOMAIN elementStore
            /\ elementStore[stack[i]].tagName \notin VOID_ELEMENTS
            /\ i = 1 => elementStore[stack[i]].parentId \notin Range(stack)
            /\ i > 1 => /\ stack[i - 1] < stack[i]
                        /\ elementStore[stack[i]].parentId = stack[i - 1]

\* C25: the open-element stack holds only ids of recorded non-void elements, in
\* strictly increasing order, each entry's parent the entry directly below it; for a
\* well-nested event sequence each end tag finalizes exactly the element its
\* matching start tag created: the stack is the elements the events leave open (empty
\* when all are closed) and the finalized records are exactly the others.
C25_StackInvariant ==
    \A p \in Calls :
        /\ StackShape(p)
        /\ (pc[p] # "idle" /\ WellNested(events[p])) =>
              /\ handler[p].elementStack = OpenIds(events[p])
              /\ \A id \in DOMAIN elementStore :
                    elementStore[id].textChunks = None <=> id \notin Range(OpenIds(events[p]))

\* three elements nested in each other, the innermost closed by its end tag
C25_Witness ==
    /\ WellNested(events[1])
    /\ Len(events[1]) = 4 /\ events[1][4].type = "endTag"
    /\ handler[1].elementStack = <<1, 2>>
    /\ DOMAIN elementStore = 1..3
    /\ elementStore[3].parentId = 2
    /\ elementStore[3].textChunks = None
-----------------------------------------------------------------------------
(* The serializer on documents of every tag it renders: call 1 has streamed a  *)
(* document of MarkdownDocuments and process() resumes after its await.        *)

MarkdownTexts ==
    { <<"a", "*", "b">>,
      <<"x", "_", "1", ".", "y">>,
      <<"[", "n", "]", "(", "m", ")", "!">>,
      <<"#", " ", "-", "+">>,
      <<"\\", BACKTICK, "{", "}">>,
      <<"o", "k">> }

MarkdownTags ==
    {"P", "H2", "DIV", "SPAN", "STRONG", "EM", "BLOCKQUOTE", "LI", "UL", "OL", "TABLE",
     "A", "CODE", "PRE"}

\* <body><div><p>thirty characters</p>inner</div><nav>..</nav></body>
Article(inner) ==
    Document(Node("BODY", EmptyAttrs, <<>>,
        Node("DIV", EmptyAttrs, <<>>, Node("P", EmptyAttrs, Txt(30, 0), <<>>) \o inner)
        \o NavLinks))

TagAttrs(tagName) == IF tagName = "A" THEN Attr("href", <<"/", "x">>) ELSE EmptyAttrs

\* an element <tag>text</tag>, inside a link or not
Block(tagName, text, inLink) ==
    IF inLink
    THEN Node("A", TagAttrs("A"), <<>>, Node(tagName, TagAttrs(tagName), text, <<>>))
    ELSE Node(tagName, TagAttrs(tagName), text, <<>>)

BlockDocuments ==
    {Article(Block(t, text, inLink)) : t \in MarkdownTags, text \in MarkdownTexts,
                                       inLink \in BOOLEAN}

MaxItems == 3
ListDepth == 3

\* the text of item i of the list at nesting depth d
Label(d, i) == <<(<<"A", "B", "C", "D">>)[d]>> \o Digits(i)

\* a list of n items per level, kinds[d] the tag of the list at depth d, the item
\* at position nested of each list holding the list of the next depth
RECURSIVE List(_, _, _, _)
RECURSIVE Items(_, _, _, _, _)
Items(kinds, d, n, nested, i) ==
    IF i > n THEN <<>>
    ELSE Node("LI", EmptyAttrs, Label(d, i),
              IF d < Len(kinds) /\ i = nested THEN List(kinds, d + 1, n, nested) ELSE <<>>)
         \o Items(kinds, d, n, nested, i + 1)
List(kinds, d, n, nested) == Node(kinds[d], EmptyAttrs, <<>>, Items(kinds, d, n, nested, 1))

ListKinds == [1..ListDepth -> {"OL", "UL"}]

ListDocuments ==
    {Article(List(kinds, 1, n, nested)) :
        kinds \in ListKinds, n \in {1, MaxItems}, nested \in {1, MaxItems}}

S_top == <<"#", "t", "o", "p">>
S_absolute == S_origin \o <<"/", "z">>

LinkHrefs ==
    { <<"/", "x">>, <<"x">>, <<"/", "/">>, <<"h", "t", "t", "p", "-", "x">>, S_top,
      S_mailto \o <<"a">>, S_tel \o <<"1">>, S_absolute }

LinkText == <<"o", "k">>

\* <a href>ok</a> after the article's paragraph
LinkDocuments == {Article(Node("A", Attr("href", href), LinkText, <<>>)) : href \in LinkHrefs}

\* <article>ok<p>thirty characters</p></article>: the candidate is the root
RootlessDocument ==
    Document(Node("ARTICLE", EmptyAttrs, LinkText, Node("P", EmptyAttrs, Txt(30, 0), <<>>)))

MarkdownDocuments == BlockDocuments \cup ListDocuments \cup LinkDocuments \cup {RootlessDocument}

InitMarkdown ==
    /\ options \in {[charThreshold |-> Min(CharThresholds), maxElemsToParse |-> 0]}
    /\ \E doc \in MarkdownDocuments : InitEnded(doc)

NextMarkdown == Finish(1)

SpecMarkdown == InitMarkdown /\ [][NextMarkdown]_vars

-----------------------------------------------------------------------------
(* Properties of the serializer, over SpecMarkdown. *)

\* the Markdown call p returned
MarkdownOf(p) == Get(result[p].value).markdown

\* s occurs in text with no backslash right before it
OccursUnescaped(text, s) ==
    \E k \in 1..(Len(text) - Len(s) + 1) :
        /\ SubSeq(text, k, k + Len(s) - 1) = s
        /\ k > 1 => text[k - 1] # "\\"

\* the retained elements with own direct text that are neither a code span, a code
\* block nor a link
EscapedTextElements ==
    {id \in elementsToKeepIdsSet :
        /\ elementStore[id].tagName \notin {"CODE", "PRE", "A"}
        /\ getInnerText(id, elementStore, FALSE) # <<>>}

\* C9: the own direct text of every retained element other than a code span, a code
\* block or a link is in the Markdown with each special character preceded by
\* exactly one backslash and every other character unchanged.
C9_OwnTextEscapedOnce ==
    \A p \in Calls :
        Returned(p) =>
            \A id \in EscapedTextElements :
                OccursUnescaped(MarkdownOf(p),
                                escapeMarkdown(getInnerText(id, elementStore, FALSE)))

\* the line of item i of the list at nesting depth d: 2*(d-1) spaces, the marker
\* "i.", the item's text
ItemLine(d, i) == Rep(" ", 2 * (d - 1)) \o Digits(i) \o <<".", " ">> \o Label(d, i)

OrderedKinds == [d \in 1..ListDepth |-> "OL"]

\* C10: for an ordered list nested three levels deep, item i of the list at nesting
\* depth d is rendered on a line made of 2*(d-1) spaces, the marker "i." and the
\* item's text.
C10_NestedListIndent ==
    \A p \in Calls : \A n \in {1, MaxItems} : \A nested \in {1, MaxItems} :
        (pc[p] = "done" /\ events[p] = Article(List(OrderedKinds, 1, n, nested))) =>
            /\ Returned(p)
            /\ \A d \in 1..(IF nested <= n THEN ListDepth ELSE 1) : \A i \in 1..n :
                  ItemLine(d, i) \in Range(splitLines(MarkdownOf(p)))


\* an absolute URL: a scheme, then "://"
IsAbsoluteUrl(href) ==
    \E i \in 2..(Len(href) - 2) :
        /\ SubSeq(href, i, i + 2) = <<":", "/", "/">>
        /\ \A j \in 1..(i - 1) : href[j] \notin {"/", ":", "#", "-"}

\* an href the serializer is to emit unchanged
KeptHref(href) ==
    \/ StartsWith(href, S_hash) \/ StartsWith(href, S_mailto) \/ StartsWith(href, S_tel)
    \/ IsAbsoluteUrl(href)

\* the href a link is to be emitted with: unchanged, or resolved against the base,
\* the original kept when the resolution fails
ExpectedHref(href, base) ==
    IF KeptHref(href) \/ resolveUrl(href, base) = None THEN href
    ELSE Get(resolveUrl(href, base))

\* C15: a retained link is emitted with its href unchanged when the href is a
\* fragment, a mailto: or tel: URI or an absolute URL, and with the href resolved
\* against the base URI otherwise (/x becomes https://example.com/x); when the
\* resolution fails the href is kept and the conversion returns.
C15_HrefResolution ==
    \A p \in Calls : \A href \in LinkHrefs :
        (pc[p] = "done" /\ events[p] = Article(Node("A", Attr("href", href), LinkText, <<>>))) =>
            /\ Returned(p)
            /\ Includes(MarkdownOf(p),
                        <<"[">> \o LinkText \o <<"]", "(">>
                            \o ExpectedHref(href, baseURI) \o <<")">>)

\* the same for the hrefs that do not begin with the letters http without being an
\* absolute URL
HrefResolutionButHttpPrefix ==
    \A p \in Calls : \A href \in {h \in LinkHrefs : StartsWith(h, S_http) => IsAbsoluteUrl(h)} :
        (pc[p] = "done" /\ events[p] = Article(Node("A", Attr("href", href), LinkText, <<>>))) =>
            /\ Returned(p)
            /\ Includes(MarkdownOf(p),
                        <<"[">> \o LinkText \o <<"]", "(">>
                            \o ExpectedHref(href, baseURI) \o <<")">>)

\* C23: an inline code element is rendered as its own direct text between backticks,
\* every character unchanged and no backslash inserted.
C23_InlineCodeVerbatim ==
    \A p \in Calls : \A text \in MarkdownTexts :
        (pc[p] = "done" /\ events[p] = Article(Block("CODE", text, FALSE))) =>
            /\ Returned(p)
            /\ Includes(MarkdownOf(p), <<BACKTICK>> \o text \o <<BACKTICK>>)

\* the own direct text of the retained elements of call p, for the elements whose
\* text has no special character
PlainTexts(p) ==
    {getInnerText(id, elementStore, FALSE) : id \in elementsToKeepIdsSet}
        \ {text \in {getInnerText(id, elementStore, FALSE) : id \in elementsToKeepIdsSet} :
              text = <<>> \/ \E i \in 1..Len(text) : text[i] \in MARKDOWN_SPECIALS}

\* C26: the retained set the scorer returns is closed under descendants, and the
\* traversal from the root process() chooses renders every retained element: the own
\* text of every retained element, the candidate included, is in the Markdown.
C26_RetainedTextRendered ==
    \A p \in Calls :
        Returned(p) =>
            /\ WithDescendants(elementsToKeepIdsSet, elementStore) = elementsToKeepIdsSet
            /\ \A text \in PlainTexts(p) : Includes(MarkdownOf(p), text)

\* the retained set is closed under descendants
RetainedClosed ==
    \A p \in Calls :
        Returned(p) => WithDescendants(elementsToKeepIdsSet, elementStore) = elementsToKeepIdsSet
-----------------------------------------------------------------------------
(* process() called more than once on one instance. *)

\* a void element: a start tag and nothing else
Void(tagName, attributes) == <<StartEvent(El(tagName, attributes, FALSE))>>

MetaTitle(content) == Void("META", Attr("property", S_og_title) @@ Attr("content", content))

\* <html lang><head><meta><title>t</title></head>
\* <body><article><p>..</p></article><nav>..</nav></body></html>
Page(lang, meta, title, parLen) ==
    Document(
        Node("HTML", IF lang = <<>> THEN EmptyAttrs ELSE Attr("lang", lang), <<>>,
            Node("HEAD", EmptyAttrs, <<>>,
                (IF meta = <<>> THEN <<>> ELSE MetaTitle(meta))
                \o (IF title = <<>> THEN <<>> ELSE Node("TITLE", EmptyAttrs, title, <<>>)))
            \o Node("BODY", EmptyAttrs, <<>>,
                Node("ARTICLE", EmptyAttrs, <<>>, Node("P", EmptyAttrs, Txt(parLen, 1), <<>>))
                \o NavLinks)))

\* the document cut off after its first k events
Truncated(doc, k) == Append(SubSeq(doc, 1, k), DocumentEndEvent)

Pages ==
    {Page(lang, meta, title, parLen) :
        lang \in {<<>>, <<"e", "n">>}, meta \in {<<>>, <<"m">>},
        title \in {<<>>, <<"t", "*">>}, parLen \in {20, 30}}

SequentialDocuments ==
    Pages \cup {Truncated(doc, Len(doc) - 4) : doc \in Pages}

\* the rewriter of call p delivers the next event of one of docs
Stream1(p, docs) ==
    \E doc \in docs :
        /\ Len(events[p]) < Len(doc)
        /\ SubSeq(doc, 1, Len(events[p])) = events[p]
        /\ HostEvent(p, doc[Len(events[p]) + 1])

InitSequential ==
    /\ options \in {[charThreshold |-> Min(CharThresholds), maxElemsToParse |-> 0]}
    /\ InitIdle

\* the second call is made when the first has returned
StartAgain == pc[1] = "done" /\ StartProcess(2)

NextSequential ==
    \/ StartProcess(1)
    \/ Stream1(1, SequentialDocuments)
    \/ Finish(1)
    \/ StartAgain
    \/ Stream1(2, {events[1]})
    \/ Finish(2)

SpecSequential == InitSequential /\ [][NextSequential]_vars

\* C6: the second of two process() calls made in sequence starts from an empty
\* store, an id counter at its initial value, an empty retained set and empty
\* metadata, and on the event sequence of the first it returns the same Markdown and
\* the same metadata.
C6_SequentialRunsAgree ==
    /\ (pc[2] = "phase1" /\ events[2] = <<>>) =>
          /\ elementStore = EmptyMap
          /\ elementCounter = 0
          /\ elementsToKeepIdsSet = {}
          /\ metaObjs[metadataStore] = EmptyMetadata
    /\ (pc[2] = "done" /\ events[2] = events[1]) => ReturnedValue(2) = ReturnedValue(1)

\* both calls returned Markdown with a title and a language in the metadata
C6_Witness ==
    /\ pc[1] = "done" /\ pc[2] = "done" /\ events[2] = events[1]
    /\ Returned(1) /\ Returned(2)
    /\ Get(ReturnedValue(2)).metadata["title"] # None
    /\ Get(ReturnedValue(2)).metadata["lang"] # None

-----------------------------------------------------------------------------
(* Two process() calls on one instance, the second made while the first awaits *)
(* its event stream.                                                           *)

ConcurrentDocuments ==
    { Document(Node("HTML", Attr("lang", <<"e", "n">>), <<>>,
          Node("P", EmptyAttrs, Txt(30, 0), <<>>))),
      Document(MetaTitle(<<"m">>)
          \o Node("DIV", EmptyAttrs, <<>>, Node("P", EmptyAttrs, Txt(40, 2), <<>>))) }

InitConcurrent == InitSequential

NextConcurrent ==
    \E p \in Calls :
        \/ StartProcess(p)
        \/ Stream1(p, ConcurrentDocuments)
        \/ Finish(p)

SpecConcurrent == InitConcurrent /\ [][NextConcurrent]_vars

\* what a call run alone on a new instance returns for the event sequence evs
AloneValue(r) ==
    IF r.value = None THEN None
    ELSE Some([markdown |-> Get(r.value).markdown,
               metadata |-> r.inst.metaObjs[Get(r.value).metadata]])

\* C7: each of two overlapping process() calls returns what it returns when run
\* alone on its event sequence.
C7_CallsIsolated ==
    \A p \in Calls :
        pc[p] \in {"done", "threw"} =>
            /\ result[p].returned
            /\ ReturnedValue(p) = AloneValue(process(NewInstance, options, baseURI, events[p]))

=============================================================================
